---- MODULE Spec2Model ----
(***************************************************************************)
(* Match-scoring engine of the job screening pipeline                      *)
(* (src/agents/matching_agent.py).                                         *)
(*                                                                         *)
(* Python values are tagged records: None, numbers (exact rationals n/d    *)
(* with d > 0, standing for the floats of the code), strings, lists and    *)
(* raised exceptions.  Strings are TLA+ strings; substring tests, lower()  *)
(* and the regular expression of parse_experience_years are computed on    *)
(* their characters.                                                       *)
(***************************************************************************)
EXTENDS Integers, Sequences, FiniteSets, TLC

VARIABLES
    call,               \* the scoring call in progress: function, arguments, result
    hash_seed,          \* string-hash seed of the running interpreter (fixes set iteration order)
    job_descriptions,   \* table job_descriptions: jd_id -> row
    candidates,         \* table candidates: candidate_id -> row
    MATCHING_WEIGHTS,   \* module-level weight map of matching_agent
    returned,           \* a result of calculate_match_score that its caller kept, and the run it is from
    matches,            \* table matches: its rows in match_id order
    SHORTLISTING_THRESHOLD, \* module-level threshold of shortlisting_agent
    sweep,              \* position of run_matching_and_shortlisting and what it has done so far
    CONFIG_FILE,        \* config.yaml as it is on disk
    pipeline            \* position of process_job_descriptions / process_cvs and the runs so far

vars == <<call, hash_seed, job_descriptions, candidates, MATCHING_WEIGHTS, returned,
          matches, SHORTLISTING_THRESHOLD, sweep, CONFIG_FILE, pipeline>>

----------------------------------------------------------------------------
(* Python values *)

None == [t |-> "none"]

Num(n, d) == [t |-> "num", n |-> n, d |-> d]

Str(s) == [t |-> "str", s |-> s]

List(q) == [t |-> "list", v |-> q]

Exc(e) == [t |-> "exc", e |-> e]

IsNum(x) == x.t = "num"

IsStr(x) == x.t = "str"

IsList(x) == x.t = "list"

IsExc(x) == x.t = "exc"

IsNone(x) == x.t = "none"

Dict(f) == [t |-> "dict", v |-> f]

IsDict(x) == x.t = "dict"

\* the text of a column that holds the JSON encoding of value v
Json(v) == [t |-> "json", v |-> v]

\* truth value of a Python object: None, 0, "" and [] are falsy
Truthy(x) ==
    CASE x.t = "none" -> FALSE
      [] x.t = "num"  -> x.n # 0
      [] x.t = "str"  -> x.s # ""
      [] x.t = "list" -> x.v # <<>>
      [] x.t = "dict" -> DOMAIN x.v # {}
      [] OTHER        -> TRUE

\* dict.get(key, default)
Get_NoDefault(d, key, default) == IF key \in DOMAIN d THEN d[key] ELSE None

Get(d, key, default) == IF key \in DOMAIN d THEN d[key] ELSE default

----------------------------------------------------------------------------
(* Exact arithmetic on numbers n/d, d > 0 *)

Abs(i) == IF i < 0 THEN -i ELSE i

RECURSIVE GCD(_, _)
GCD(a, b) == IF b = 0 THEN a ELSE GCD(b, a % b)

Norm(n, d) ==
    LET g == GCD(Abs(n), d)
    IN  IF n = 0 THEN Num(0, 1) ELSE Num(n \div g, d \div g)

Add(x, y) == Norm(x.n * y.d + y.n * x.d, x.d * y.d)

Sub(x, y) == Norm(x.n * y.d - y.n * x.d, x.d * y.d)

Mul(x, y) == Norm(x.n * y.n, x.d * y.d)

\* x / y for y # 0
Div(x, y) == IF y.n > 0 THEN Norm(x.n * y.d, x.d * y.n) ELSE Norm(-(x.n * y.d), x.d * (-y.n))

Eq(x, y) == x.n * y.d = y.n * x.d

Lt(x, y) == x.n * y.d < y.n * x.d

Leq(x, y) == x.n * y.d <= y.n * x.d

Min(x, y) == IF Lt(y, x) THEN y ELSE x

Max(x, y) == IF Lt(x, y) THEN y ELSE x

Zero == Num(0, 1)

Half == Num(1, 2)

One == Num(1, 1)

\* round(x, 3): nearest multiple of 1/1000, ties to the even one
Round3(x) ==
    LET m == x.n * 1000
        q == m \div x.d
        r == m % x.d
        k == IF 2 * r > x.d THEN q + 1
             ELSE IF 2 * r < x.d THEN q
             ELSE IF q % 2 = 0 THEN q ELSE q + 1
    IN  Norm(k, 1000)

----------------------------------------------------------------------------
(* Strings *)

UpperCase == "ABCDEFGHIJKLMNOPQRSTUVWXYZ"

LowerCase == "abcdefghijklmnopqrstuvwxyz"

Digits == "0123456789"

Char(s, i) == SubSeq(s, i, i)

\* index of the one-character string c in alphabet, 0 when absent
IndexIn(alphabet, c) ==
    IF \E i \in 1..Len(alphabet) : Char(alphabet, i) = c
    THEN CHOOSE i \in 1..Len(alphabet) : Char(alphabet, i) = c
    ELSE 0

IsDigit(c) == IndexIn(Digits, c) # 0

DigitVal(c) == IndexIn(Digits, c) - 1

\* str.lower()
RECURSIVE Lower(_)
Lower(s) ==
    IF s = "" THEN ""
    ELSE LET c == Char(s, 1)
             i == IndexIn(UpperCase, c)
         IN  (IF i = 0 THEN c ELSE Char(LowerCase, i)) \o Lower(SubSeq(s, 2, Len(s)))

\* sub in s
Contains(s, sub) ==
    \E i \in 1..(Len(s) - Len(sub) + 1) : SubSeq(s, i, i + Len(sub) - 1) = sub

\* str(x) for the element types the cleaned records hold
PyStr(x) == IF IsStr(x) THEN x.s ELSE IF x.t = "none" THEN "None" ELSE ""

----------------------------------------------------------------------------
(* parse_experience_years: float(re.findall(r'\d+\.?\d*', s)[0]) *)

\* position of the first digit of s at or after i, 0 when there is none
RECURSIVE FirstDigit(_, _)
FirstDigit(s, i) ==
    IF i > Len(s) THEN 0
    ELSE IF IsDigit(Char(s, i)) THEN i
    ELSE FirstDigit(s, i + 1)

\* last position of the run of digits of s that starts at i (i - 1 when empty)
RECURSIVE DigitsEnd(_, _)
DigitsEnd(s, i) ==
    IF i <= Len(s) /\ IsDigit(Char(s, i)) THEN DigitsEnd(s, i + 1) ELSE i - 1

\* value of the digit string s[i..j]
RECURSIVE DecVal(_, _, _)
DecVal(s, i, j) ==
    IF j < i THEN 0 ELSE DecVal(s, i, j - 1) * 10 + DigitVal(Char(s, j))

RECURSIVE Pow10(_)
Pow10(k) == IF k = 0 THEN 1 ELSE 10 * Pow10(k - 1)

parse_experience_years(exp_string) ==
    IF ~Truthy(exp_string) \/ ~IsStr(exp_string) THEN None
    ELSE LET s  == exp_string.s
             p  == FirstDigit(s, 1)
             e1 == DigitsEnd(s, p)
             hasDot == e1 < Len(s) /\ Char(s, e1 + 1) = "."
             e2 == IF hasDot THEN DigitsEnd(s, e1 + 2) ELSE e1
             k  == IF hasDot THEN e2 - (e1 + 1) ELSE 0
         IN  IF p = 0 THEN None
             ELSE Norm(DecVal(s, p, e1) * Pow10(k) + DecVal(s, e1 + 2, e2), Pow10(k))

----------------------------------------------------------------------------
(* calculate_experience_match *)

\* float("nan"), which json.loads reads from the token NaN: an instance of
\* float for which every comparison is False
NaN == [t |-> "nan"]

IsNaN(x) == x.t = "nan"

\* isinstance(x, (int, float))
IsFloat(x) == IsNum(x) \/ IsNaN(x)

\* x / y on floats
TrueDiv(x, y) ==
    IF Eq(y, Zero) THEN Exc("ZeroDivisionError")
    ELSE IF IsNaN(x) THEN NaN
    ELSE Div(x, y)

\* max(0.0, x): 0.0 unless x > 0.0
MaxZero(x) == IF IsNaN(x) THEN Zero ELSE Max(Zero, x)

calculate_experience_match_Bonus(jd_exp_years_str, cv_total_exp_years) ==
    LET jd_min_years == parse_experience_years(jd_exp_years_str)
        cv == cv_total_exp_years
    IN  IF IsNone(jd_min_years)
        THEN IF ~IsNone(cv) /\ IsNum(cv) /\ Lt(Zero, cv) THEN Half ELSE Zero
        ELSE IF IsNone(cv) \/ ~IsFloat(cv) \/ (IsNum(cv) /\ Lt(cv, Zero)) THEN Zero
        ELSE IF IsNum(cv) /\ Leq(jd_min_years, cv)
             THEN Add(One, Min(Num(1, 5), Mul(Sub(cv, jd_min_years), Num(1, 20))))
             ELSE LET partial_score == TrueDiv(cv, jd_min_years)
                  IN  IF IsExc(partial_score) THEN partial_score ELSE MaxZero(partial_score)

calculate_experience_match_NoTypeCheck(jd_exp_years_str, cv_total_exp_years) ==
    LET jd_min_years == parse_experience_years(jd_exp_years_str)
        cv == cv_total_exp_years
    IN  IF ~IsNone(cv) /\ ~IsFloat(cv) THEN Exc("TypeError")
        ELSE IF IsNone(jd_min_years)
        THEN IF ~IsNone(cv) /\ IsNum(cv) /\ Lt(Zero, cv) THEN Half ELSE Zero
        ELSE IF IsNone(cv) \/ (IsNum(cv) /\ Lt(cv, Zero)) THEN Zero
        ELSE IF IsNum(cv) /\ Leq(jd_min_years, cv)
             THEN LET bonus == Min(Num(1, 5), Mul(Sub(cv, jd_min_years), Num(1, 20)))
                  IN  Min(One, Add(One, bonus))
             ELSE LET partial_score == TrueDiv(cv, jd_min_years)
                  IN  IF IsExc(partial_score) THEN partial_score ELSE MaxZero(partial_score)

\* comparisons with NaN are False: it passes "cv_total_exp_years < 0", fails
\* "cv_total_exp_years >= jd_min_years" and reaches the division
calculate_experience_match(jd_exp_years_str, cv_total_exp_years) ==
    LET jd_min_years == parse_experience_years(jd_exp_years_str)
        cv == cv_total_exp_years
    IN  IF IsNone(jd_min_years)
        THEN IF ~IsNone(cv) /\ IsNum(cv) /\ Lt(Zero, cv) THEN Half ELSE Zero
        ELSE IF IsNone(cv) \/ ~IsFloat(cv) \/ (IsNum(cv) /\ Lt(cv, Zero)) THEN Zero
        ELSE IF IsNum(cv) /\ Leq(jd_min_years, cv)
             THEN LET bonus == Min(Num(1, 5), Mul(Sub(cv, jd_min_years), Num(1, 20)))
                  IN  Min(One, Add(One, bonus))
             ELSE LET partial_score == TrueDiv(cv, jd_min_years)
                  IN  IF IsExc(partial_score) THEN partial_score ELSE MaxZero(partial_score)

----------------------------------------------------------------------------
(* calculate_education_match *)

\* degree_hierarchy, in the order the dict literal lists its items
degree_hierarchy ==
    << <<"phd", 4>>, <<"doctorate", 4>>,
       <<"master", 3>>, <<"mba", 3>>, <<"msc", 3>>, <<"meng", 3>>, <<"m.sc", 3>>, <<"m.eng", 3>>,
       <<"bachelor", 2>>, <<"undergraduate", 2>>, <<"bs", 2>>, <<"ba", 2>>, <<"beng", 2>>,
       <<"b.s", 2>>, <<"b.a", 2>>, <<"b.eng", 2>>,
       <<"associate", 1>>, <<"diploma", 1>>, <<"certificate", 1>> >>

\* the loop "for degree, level in degree_hierarchy.items()" from item i on,
\* started with the running level lvl
RECURSIVE ScanDegrees(_, _, _)
ScanDegrees(text, i, lvl) ==
    IF i > Len(degree_hierarchy) THEN lvl
    ELSE LET degree == degree_hierarchy[i][1]
             level  == degree_hierarchy[i][2]
         IN  ScanDegrees(text, i + 1,
                         IF Contains(text, degree) /\ level > lvl THEN level ELSE lvl)

ScanEducation_FirstOnly(edu, i, lvl) ==
    IF i > Len(edu) THEN lvl ELSE ScanDegrees(Lower(PyStr(edu[i])), 1, lvl)

\* the loop "for edu_str in cv_education_list" from element i on
RECURSIVE ScanEducation(_, _, _)
ScanEducation(edu, i, lvl) ==
    IF i > Len(edu) THEN lvl
    ELSE ScanEducation(edu, i + 1, ScanDegrees(Lower(PyStr(edu[i])), 1, lvl))

NoEducationWords == {"none", "none specified", "n/a"}

calculate_education_match(jd_education_str, cv_education_list) ==
    IF \/ ~Truthy(jd_education_str)
       \/ ~IsStr(jd_education_str)
       \/ Lower(jd_education_str.s) \in NoEducationWords
    THEN Half
    ELSE IF ~Truthy(cv_education_list) \/ ~IsList(cv_education_list) THEN Zero
    ELSE LET jd_edu_lower == Lower(jd_education_str.s)
             jd_level == ScanDegrees(jd_edu_lower, 1, 0)
             cv_level == ScanEducation(cv_education_list.v, 1, 0)
         IN  IF jd_level = 0 /\ Len(jd_edu_lower) > 3 THEN Half
             ELSE IF jd_level = 0 THEN Half
             ELSE IF cv_level >= jd_level THEN One
             ELSE Zero

----------------------------------------------------------------------------
(* Sets of Python values and their iteration order *)

EmptyList == List(<<>>)

\* set(x) raises TypeError unless x is iterable and its elements hashable
SetRaises(x) ==
    \/ ~(IsList(x) \/ IsStr(x))
    \/ IsList(x) /\ \E i \in DOMAIN x.v : IsList(x.v[i])

\* set(x): the elements of a list, the characters of a string
ToSet(x) ==
    IF IsList(x) THEN {x.v[i] : i \in DOMAIN x.v}
    ELSE {Str(Char(x.s, i)) : i \in 1..Len(x.s)}

\* the sequence "for e in x" visits: a list's elements, a string's characters
Elems(x) == IF IsList(x) THEN x.v ELSE [i \in 1..Len(x.s) |-> Str(Char(x.s, i))]

RECURSIVE Enumerate(_)
Enumerate(S) ==
    IF S = {} THEN <<>>
    ELSE LET x == CHOOSE y \in S : TRUE IN <<x>> \o Enumerate(S \ {x})

Reverse(q) == [i \in 1..Len(q) |-> q[Len(q) + 1 - i]]

HashSeeds == {0, 1}

\* the order in which "for x in S" visits a set; it depends on the hash seed
\* of the interpreter and on nothing else
IterOrder(S) == IF hash_seed = 0 THEN Enumerate(S) ELSE Reverse(Enumerate(S))

----------------------------------------------------------------------------
(* SKILL_SYNONYMS and expand_skills *)

\* the dict literal, items in insertion order
SKILL_SYNONYMS ==
    << <<"databases", <<"sql", "mysql", "postgresql", "nosql", "database management", "database">> >>,
       <<"web development", <<"html", "css", "javascript", "react", "angular", "vue", "node.js",
                               "django", "flask", "spring boot", "web dev", "frontend", "backend">> >>,
       <<"cloud", <<"aws", "azure", "gcp", "google cloud", "amazon web services", "cloud computing">> >>,
       <<"machine learning", <<"ml", "deep learning", "tensorflow", "pytorch", "scikit-learn", "ai">> >>,
       <<"artificial intelligence", <<"ai", "ml", "deep learning", "nlp", "computer vision">> >>,
       <<"cybersecurity", <<"security", "network security", "penetration testing", "pen testing",
                            "risk assessment", "vulnerability assessment", "infosec">> >>,
       <<"python", <<"python3">> >>,
       <<"java", <<"java se", "java ee">> >> >>

\* skill in value_list
InList(skill, value_list) ==
    IsStr(skill) /\ \E j \in DOMAIN value_list : value_list[j] = skill.s

AddCategories_FirstOnly(skill, synonyms, i, expanded) ==
    LET hits == {j \in i..Len(synonyms) : InList(skill, synonyms[j][2])}
    IN  IF hits = {} THEN expanded
        ELSE expanded \cup {Str(synonyms[CHOOSE j \in hits : \A h \in hits : j <= h][1])}

\* the inner loop "for key, value_list in synonyms.items()" from item i on:
\* every key whose value list holds the skill is added
AddCategories(skill, synonyms, i, expanded) ==
    expanded \cup {Str(synonyms[j][1]) : j \in {h \in i..Len(synonyms) : InList(skill, synonyms[h][2])}}

RECURSIVE ExpandFrom_KeysOnly(_, _, _, _)
ExpandFrom_KeysOnly(order, synonyms, i, expanded) ==
    IF i > Len(order) THEN expanded
    ELSE LET skill == order[i]
             direct == IF IsStr(skill) /\ \E k \in DOMAIN synonyms : synonyms[k][1] = skill.s
                       THEN LET k == CHOOSE k \in DOMAIN synonyms : synonyms[k][1] = skill.s
                            IN  expanded \cup {Str(synonyms[k][2][j]) : j \in DOMAIN synonyms[k][2]}
                       ELSE expanded
         IN  ExpandFrom_KeysOnly(order, synonyms, i + 1, direct)

\* the outer loop "for skill in skill_set" from position i of the visiting order on
RECURSIVE ExpandFrom(_, _, _, _)
ExpandFrom(order, synonyms, i, expanded) ==
    IF i > Len(order) THEN expanded
    ELSE LET skill == order[i]
             direct == IF IsStr(skill) /\ \E k \in DOMAIN synonyms : synonyms[k][1] = skill.s
                       THEN LET k == CHOOSE k \in DOMAIN synonyms : synonyms[k][1] = skill.s
                            IN  expanded \cup {Str(synonyms[k][2][j]) : j \in DOMAIN synonyms[k][2]}
                       ELSE expanded
         IN  ExpandFrom(order, synonyms, i + 1, AddCategories(skill, synonyms, 1, direct))

expand_skills_FromEmpty(skill_set, synonyms) ==
    IF skill_set = {} THEN {}
    ELSE ExpandFrom(IterOrder(skill_set), synonyms, 1, {})

expand_skills(skill_set, synonyms) ==
    IF skill_set = {} THEN {}
    ELSE ExpandFrom(IterOrder(skill_set), synonyms, 1, skill_set)

----------------------------------------------------------------------------
(* calculate_skill_match *)

skill_weights == [required |-> Num(60, 100), preferred |-> Num(10, 100),
                  domain |-> Num(15, 100), soft |-> Num(15, 100)]

MatchRatio_ByExpanded(a, b, raw) == Norm(Cardinality(a \cap b), Cardinality(a))

\* len(a.intersection(b)) / len(raw)
MatchRatio(a, b, raw) == Norm(Cardinality(a \cap b), Cardinality(raw))

\* "if raw: weighted_score += match * weight"
AddWeighted(raw, weighted_score, match, weight) ==
    IF raw # {} THEN Add(weighted_score, Mul(match, weight)) ELSE weighted_score

AddWeight_Always(raw, total_weight, weight) == Add(total_weight, weight)

\* "if raw: total_weight += weight"
AddWeight(raw, total_weight, weight) ==
    IF raw # {} THEN Add(total_weight, weight) ELSE total_weight

calculate_skill_match(jd_data, cv_data) ==
    LET jd_req  == Get(jd_data, "required_skills", EmptyList)
        jd_pref == Get(jd_data, "preferred_skills", EmptyList)
        jd_dom  == Get(jd_data, "domain_expertise", EmptyList)
        jd_sft  == Get(jd_data, "soft_skills", EmptyList)
        cv_tech == Get(cv_data, "skills", EmptyList)
        cv_dom  == Get(cv_data, "domain_expertise", EmptyList)
        cv_sft  == Get(cv_data, "soft_skills", EmptyList)
    IN  IF \E x \in {jd_req, jd_pref, jd_dom, jd_sft, cv_tech, cv_dom, cv_sft} : SetRaises(x)
        THEN Exc("TypeError")
        ELSE
        LET jd_req_skills_raw  == ToSet(jd_req)
            jd_pref_skills_raw == ToSet(jd_pref)
            jd_domain_raw      == ToSet(jd_dom)
            jd_soft_raw        == ToSet(jd_sft)
            jd_req_skills  == expand_skills(jd_req_skills_raw, SKILL_SYNONYMS)
            jd_pref_skills == expand_skills(jd_pref_skills_raw, SKILL_SYNONYMS)
            jd_domain      == expand_skills(jd_domain_raw, SKILL_SYNONYMS)
            jd_soft        == jd_soft_raw
            cv_tech_skills == ToSet(cv_tech)
            cv_domain      == ToSet(cv_dom)
            cv_soft        == ToSet(cv_sft)
            all_cv_skills  == (cv_tech_skills \cup cv_domain) \cup cv_soft
            required_match  == IF jd_req_skills_raw # {}
                               THEN MatchRatio(jd_req_skills, all_cv_skills, jd_req_skills_raw)
                               ELSE Half
            preferred_match == IF jd_pref_skills_raw # {}
                               THEN MatchRatio(jd_pref_skills, all_cv_skills, jd_pref_skills_raw)
                               ELSE Zero
            domain_match    == IF jd_domain_raw # {}
                               THEN MatchRatio(jd_domain, cv_domain, jd_domain_raw)
                               ELSE Half
            soft_match      == IF jd_soft_raw # {}
                               THEN MatchRatio(jd_soft, cv_soft, jd_soft_raw)
                               ELSE Half
            \* the four "if ...: weighted_score += ...; total_weight += ..." in order
            ws1 == AddWeighted(jd_req_skills_raw, Zero, required_match, skill_weights.required)
            tw1 == AddWeight(jd_req_skills_raw, Zero, skill_weights.required)
            ws2 == AddWeighted(jd_pref_skills_raw, ws1, preferred_match, skill_weights.preferred)
            tw2 == AddWeight(jd_pref_skills_raw, tw1, skill_weights.preferred)
            ws3 == AddWeighted(jd_domain_raw, ws2, domain_match, skill_weights.domain)
            tw3 == AddWeight(jd_domain_raw, tw2, skill_weights.domain)
            weighted_score == AddWeighted(jd_soft_raw, ws3, soft_match, skill_weights.soft)
            total_weight   == AddWeight(jd_soft_raw, tw3, skill_weights.soft)
        IN  IF Eq(total_weight, Zero) THEN Half
            ELSE Div(weighted_score, total_weight)

----------------------------------------------------------------------------
(* check_essential_requirements *)

\* " ".join(str(e).lower() for e in edu), from element i on
RECURSIVE JoinLower(_, _)
JoinLower(edu, i) ==
    IF i > Len(edu) THEN ""
    ELSE Lower(PyStr(edu[i])) \o (IF i < Len(edu) THEN " " \o JoinLower(edu, i + 1) ELSE "")

RECURSIVE CountMet_StopAtUnmet(_, _, _, _, _)
CountMet_StopAtUnmet(order, i, cv_quals_combined, cv_edu_text, met_requirements) ==
    IF i > Len(order) THEN met_requirements
    ELSE LET req_lower == Lower(order[i].s)
         IN  IF Str(req_lower) \in cv_quals_combined \/ Contains(cv_edu_text, req_lower)
             THEN CountMet_StopAtUnmet(order, i + 1, cv_quals_combined, cv_edu_text,
                                       met_requirements + 1)
             ELSE met_requirements

RECURSIVE CountMet_ExactOnly(_, _, _, _, _)
CountMet_ExactOnly(order, i, cv_quals_combined, cv_edu_text, met_requirements) ==
    IF i > Len(order) THEN met_requirements
    ELSE CountMet_ExactOnly(order, i + 1, cv_quals_combined, cv_edu_text,
                            IF Str(Lower(order[i].s)) \in cv_quals_combined
                            THEN met_requirements + 1
                            ELSE met_requirements)

\* the loop "for req in essential_reqs" from position i of the visiting order on
RECURSIVE CountMet(_, _, _, _, _)
CountMet(order, i, cv_quals_combined, cv_edu_text, met_requirements) ==
    IF i > Len(order) THEN met_requirements
    ELSE LET req_lower == Lower(order[i].s)
         IN  CountMet(order, i + 1, cv_quals_combined, cv_edu_text,
                      IF Str(req_lower) \in cv_quals_combined \/ Contains(cv_edu_text, req_lower)
                      THEN met_requirements + 1
                      ELSE met_requirements)

check_essential_requirements(jd_data, cv_data) ==
    LET jd_reqs  == Get(jd_data, "essential_requirements", EmptyList)
        cv_sk    == Get(cv_data, "skills", EmptyList)
        cv_ce    == Get(cv_data, "certifications", EmptyList)
        cv_education_list == Get(cv_data, "education", EmptyList)
    IN  IF SetRaises(jd_reqs) THEN Exc("TypeError")
        ELSE IF ToSet(jd_reqs) = {} THEN One
        ELSE IF SetRaises(cv_sk) \/ SetRaises(cv_ce) \/ ~(IsList(cv_education_list) \/ IsStr(cv_education_list))
             THEN Exc("TypeError")
        ELSE IF \E r \in ToSet(jd_reqs) : ~IsStr(r) THEN Exc("AttributeError")
        ELSE LET essential_reqs == ToSet(jd_reqs)
                 cv_quals_combined == ToSet(cv_sk) \cup ToSet(cv_ce)
                 cv_edu_text == JoinLower(Elems(cv_education_list), 1)
                 met_requirements ==
                     CountMet(IterOrder(essential_reqs), 1, cv_quals_combined, cv_edu_text, 0)
             IN  Norm(met_requirements, Cardinality(essential_reqs))

----------------------------------------------------------------------------
(* calculate_match_score *)

DEFAULT_WEIGHTS == [skills |-> Num(4, 10), experience |-> Num(25, 100),
                    education |-> Num(25, 100), requirements |-> Num(1, 10)]

\* config.yaml: absent, not parseable as YAML, or a document that loads to v
NoFile == [t |-> "nofile"]

BadYaml == [t |-> "badyaml"]

Yaml(v) == [t |-> "yaml", v |-> v]

required_keys ==
    {"ollama_model", "database_path", "shortlisting_threshold", "cv_directory", "jd_csv_path"}

\* "key in config" for whatever the document loaded to
KeyIn(key, config) ==
    CASE IsDict(config) -> key \in DOMAIN config.v
      [] IsList(config) -> \E i \in DOMAIN config.v : config.v[i] = Str(key)
      [] IsStr(config)  -> Contains(config.s, key)
      [] OTHER          -> FALSE

\* load_config: the loaded document, or the exception it re-raises
load_config ==
    CASE CONFIG_FILE.t = "nofile"  -> Exc("FileNotFoundError")
      [] CONFIG_FILE.t = "badyaml" -> Exc("YAMLError")
      [] OTHER ->
            LET config == CONFIG_FILE.v
            IN  IF ~(IsDict(config) \/ IsList(config) \/ IsStr(config))
                THEN Exc("TypeError")
                ELSE IF \A key \in required_keys : KeyIn(key, config)
                     THEN config
                     ELSE Exc("ValueError")

\* the "Load Config" block run when matching_agent is imported: the dict
\* MATCHING_WEIGHTS is bound to, or the exception that leaves the block.
\* When load_config raises, DEFAULT_WEIGHTS is not bound yet and the handler,
\* which formats it into its message, raises NameError.
LoadMatchingWeights ==
    LET config == load_config
    IN  IF IsExc(config) THEN Exc("NameError")
        ELSE IF ~IsDict(config) THEN Dict(DEFAULT_WEIGHTS)
        ELSE LET configured == Get(config.v, "matching_weights", Dict(DEFAULT_WEIGHTS))
             IN  IF ~IsDict(configured) THEN Dict(DEFAULT_WEIGHTS) ELSE configured

\* the "Load config for threshold" block run when shortlisting_agent is imported
LoadShortlistingThreshold ==
    LET config == load_config
    IN  IF IsExc(config) \/ ~IsDict(config) THEN Num(3, 4)
        ELSE Get(config.v, "shortlisting_threshold", Num(3, 4))

\* json.loads inside safe_json_loads: None for NULL, empty or undecodable text
safe_json_loads_EmptyOnError(json_string) ==
    IF ~Truthy(json_string) THEN None
    ELSE IF json_string.t = "json" THEN json_string.v
    ELSE Dict([i \in {} |-> None])

safe_json_loads(json_string) ==
    IF ~Truthy(json_string) THEN None
    ELSE IF json_string.t = "json" THEN json_string.v
    ELSE None

get_jd(jd_id) ==
    IF jd_id \in DOMAIN job_descriptions THEN job_descriptions[jd_id] ELSE None

get_candidate(candidate_id) ==
    IF candidate_id \in DOMAIN candidates THEN candidates[candidate_id] ELSE None

\* what "return score, details" hands to the caller
Result(score, details) == [t |-> "result", score |-> score, details |-> details]

ApplyWeights_Renormalized(skill_score, experience_score, education_score, requirements_score, weights) ==
    LET w_skills       == Get(weights, "skills", Num(4, 10))
        w_experience   == Get(weights, "experience", Num(25, 100))
        w_education    == Get(weights, "education", Num(25, 100))
        w_requirements == Get(weights, "requirements", Num(1, 10))
        total == Add(Add(Add(w_skills, w_experience), w_education), w_requirements)
        overall_score ==
            Add(Add(Add(Mul(skill_score, w_skills), Mul(experience_score, w_experience)),
                    Mul(education_score, w_education)),
                Mul(requirements_score, w_requirements))
    IN  Max(Zero, Min(One, IF Eq(total, Zero) THEN overall_score ELSE Div(overall_score, total)))

\* step 5: the weighted sum and the clamp
ApplyWeights(skill_score, experience_score, education_score, requirements_score, weights) ==
    LET w_skills       == Get(weights, "skills", Num(4, 10))
        w_experience   == Get(weights, "experience", Num(25, 100))
        w_education    == Get(weights, "education", Num(25, 100))
        w_requirements == Get(weights, "requirements", Num(1, 10))
    IN  IF \E w \in {w_skills, w_experience, w_education, w_requirements} : ~IsNum(w)
        THEN Exc("TypeError")
        ELSE LET overall_score ==
                     Add(Add(Add(Mul(skill_score, w_skills),
                                 Mul(experience_score, w_experience)),
                             Mul(education_score, w_education)),
                         Mul(requirements_score, w_requirements))
             IN  Max(Zero, Min(One, overall_score))

calculate_match_score(jd_id, candidate_id) ==
    LET jd_row == get_jd(jd_id)
        candidate_row == get_candidate(candidate_id)
    IN  IF IsNone(jd_row) \/ IsNone(candidate_row)
        THEN Result(None, [error |-> "Missing DB row data"])
        ELSE
        LET jd_data == safe_json_loads(jd_row.summary_json)
            cv_data == safe_json_loads(candidate_row.extracted_data_json)
        IN  IF ~IsDict(jd_data) \/ ~IsDict(cv_data)
            THEN Result(Zero,
                        [k \in {"error"} \cup (IF IsDict(jd_data) THEN {} ELSE {"jd_error"})
                                         \cup (IF IsDict(cv_data) THEN {} ELSE {"cv_error"}) |->
                            CASE k = "error"    -> "Invalid JSON data structure"
                              [] k = "jd_error" -> "Invalid JD JSON"
                              [] k = "cv_error" -> "Invalid CV JSON"])
            ELSE
            LET skill_score == calculate_skill_match(jd_data.v, cv_data.v)
                experience_score ==
                    calculate_experience_match(Get(jd_data.v, "required_experience_years", None),
                                               Get(cv_data.v, "total_experience_years", None))
                education_score ==
                    calculate_education_match(Get(jd_data.v, "required_education", None),
                                              Get(cv_data.v, "education", EmptyList))
                requirements_score == check_essential_requirements(jd_data.v, cv_data.v)
                weights == MATCHING_WEIGHTS
            IN  IF IsExc(skill_score) THEN skill_score
                ELSE IF IsExc(experience_score) THEN experience_score
                ELSE IF IsExc(requirements_score) THEN requirements_score
                ELSE LET overall_score ==
                             ApplyWeights(skill_score, experience_score, education_score,
                                          requirements_score, weights)
                     IN  IF IsExc(overall_score) THEN overall_score
                         ELSE Result(overall_score,
                                     [skills_score |-> Round3(skill_score),
                                      experience_score |-> Round3(experience_score),
                                      education_score |-> Round3(education_score),
                                      requirements_score |-> Round3(requirements_score),
                                      weights_used |-> weights])

----------------------------------------------------------------------------
(* The matches table (src/utils/database_utils.py) and the shortlister      *)
(* (src/agents/shortlisting_agent.py).  Timestamps are left out: nothing    *)
(* reads them.                                                              *)

\* the fallback of the shortlisting agent, 0.75
DEFAULT_THRESHOLD == Num(3, 4)

add_or_update_match_AlwaysInsert(jd_id, candidate_id, score, details) ==
    Append(matches, [match_id |-> Len(matches) + 1, jd_id |-> jd_id,
                     candidate_id |-> candidate_id, match_score |-> score,
                     shortlist_status |-> 0,
                     match_details_json |-> IF Truthy(details) THEN Json(details) ELSE None])

add_or_update_match_Replace(jd_id, candidate_id, score, details) ==
    LET details_str == IF Truthy(details) THEN Json(details) ELSE None
        conflict == {i \in DOMAIN matches :
                        matches[i].jd_id = jd_id /\ matches[i].candidate_id = candidate_id}
    IN  IF conflict # {}
        THEN [i \in DOMAIN matches |->
                 IF i \in conflict
                 THEN [matches[i] EXCEPT !.match_score = score,
                                         !.match_details_json = details_str,
                                         !.shortlist_status = 0]
                 ELSE matches[i]]
        ELSE Append(matches, [match_id |-> Len(matches) + 1, jd_id |-> jd_id,
                              candidate_id |-> candidate_id, match_score |-> score,
                              shortlist_status |-> 0, match_details_json |-> details_str])

\* INSERT ... ON CONFLICT(jd_id, candidate_id) DO UPDATE SET match_score,
\* match_details_json: the table after the statement.  A new row gets the next
\* match_id and the column default shortlist_status = 0.
add_or_update_match(jd_id, candidate_id, score, details) ==
    LET details_str == IF Truthy(details) THEN Json(details) ELSE None
        conflict == {i \in DOMAIN matches :
                        matches[i].jd_id = jd_id /\ matches[i].candidate_id = candidate_id}
    IN  IF conflict # {}
        THEN [i \in DOMAIN matches |->
                 IF i \in conflict
                 THEN [matches[i] EXCEPT !.match_score = score,
                                         !.match_details_json = details_str]
                 ELSE matches[i]]
        ELSE Append(matches, [match_id |-> Len(matches) + 1, jd_id |-> jd_id,
                              candidate_id |-> candidate_id, match_score |-> score,
                              shortlist_status |-> 0, match_details_json |-> details_str])

\* the rows of SELECT m.*, c.cv_filename FROM matches m JOIN candidates c ...
\* WHERE m.jd_id = ?, by position in the table
JoinedMatches(jd_id) ==
    {i \in DOMAIN matches :
        matches[i].jd_id = jd_id /\ matches[i].candidate_id \in DOMAIN candidates}

get_matches_for_jd_Unordered(jd_id) ==
    LET ids == JoinedMatches(jd_id)
    IN  {[k \in DOMAIN q |-> matches[q[k]]] :
            q \in {r \in [1..Cardinality(ids) -> ids] :
                      \A a, b \in DOMAIN r : a < b => r[a] < r[b]}}

\* get_matches_for_jd: the row lists ORDER BY m.match_score DESC allows; rows of
\* equal score come in an order the query does not fix
get_matches_for_jd(jd_id) ==
    LET ids == JoinedMatches(jd_id)
    IN  {[k \in DOMAIN q |-> matches[q[k]]] :
            q \in {r \in [1..Cardinality(ids) -> ids] :
                      /\ \A a, b \in DOMAIN r : a # b => r[a] # r[b]
                      /\ \A a, b \in DOMAIN r :
                            a < b => Leq(matches[r[b]].match_score, matches[r[a]].match_score)}}

update_shortlist_status_SetOnly(table, match_id, status) ==
    [i \in DOMAIN table |->
        IF table[i].match_id = match_id /\ status
        THEN [table[i] EXCEPT !.shortlist_status = 1]
        ELSE table[i]]

\* UPDATE matches SET shortlist_status = int(status) WHERE match_id = ?
update_shortlist_status(table, match_id, status) ==
    [i \in DOMAIN table |->
        IF table[i].match_id = match_id
        THEN [table[i] EXCEPT !.shortlist_status = IF status THEN 1 ELSE 0]
        ELSE table[i]]

MeetsThreshold_Above(score) == Lt(SHORTLISTING_THRESHOLD, score)

\* score >= SHORTLISTING_THRESHOLD
MeetsThreshold(score) == Leq(SHORTLISTING_THRESHOLD, score)

\* the loop "for match_row in all_matches" from row i on: the table and the
\* list of shortlisted candidates it ends with
RECURSIVE ShortlistFrom(_, _, _, _)
ShortlistFrom(all_matches, i, table, shortlisted_candidates) ==
    IF i > Len(all_matches)
    THEN [table |-> table, shortlisted_candidates |-> shortlisted_candidates]
    ELSE LET match_row == all_matches[i]
             status == MeetsThreshold(match_row.match_score)
             entry == [candidate_id |-> match_row.candidate_id,
                       cv_filename |-> candidates[match_row.candidate_id].cv_filename,
                       match_score |-> Round3(match_row.match_score)]
         IN  ShortlistFrom(all_matches, i + 1,
                           update_shortlist_status(table, match_row.match_id, status),
                           IF status THEN Append(shortlisted_candidates, entry)
                           ELSE shortlisted_candidates)

\* shortlist_candidates_for_jd, given the rows get_matches_for_jd returned
shortlist_candidates_for_jd(jd_id, all_matches) ==
    IF all_matches = <<>>
    THEN [table |-> matches, shortlisted_candidates |-> <<>>]
    ELSE ShortlistFrom(all_matches, 1, matches, <<>>)

----------------------------------------------------------------------------
(* The test block of matching_agent (src/agents/matching_agent.py) *)

\* the pair the test block of matching_agent scores
test_jd_id == 1

test_candidate_id == 4

\* "UPDATE matches SET shortlist_status = 1 WHERE jd_id = ? AND candidate_id = ?"
MarkShortlisted(table, jd_id, candidate_id) ==
    [i \in DOMAIN table |->
        IF table[i].jd_id = jd_id /\ table[i].candidate_id = candidate_id
        THEN [table[i] EXCEPT !.shortlist_status = 1]
        ELSE table[i]]

\* "if score >= threshold: UPDATE ...": the flag is set, never cleared
FlagIfReached(saved, reached) ==
    IF reached THEN MarkShortlisted(saved, test_jd_id, test_candidate_id) ELSE saved

\* "if score is not None": the match is saved and, when the score reaches the
\* threshold of config.yaml, flagged
SaveTestedPair(result, threshold) ==
    IF IsExc(result) THEN [table |-> matches, result |-> result, saved |-> FALSE]
    ELSE IF IsNone(result.score) THEN [table |-> matches, result |-> result, saved |-> FALSE]
    ELSE [table |-> FlagIfReached(add_or_update_match(test_jd_id, test_candidate_id,
                                                      result.score, Dict(result.details)),
                                  Leq(threshold, result.score)),
          result |-> result, saved |-> TRUE]

\* the threshold the test block reads from a loaded config
TestThreshold(config) ==
    IF IsExc(config) THEN None
    ELSE IF ~IsDict(config) THEN None
    ELSE Get(config.v, "shortlisting_threshold", Num(66, 100))

\* the test block of matching_agent (python agents/matching_agent.py): what
\* it leaves in matches and what it computed
SinglePairTest(config, jd_check, cand_check) ==
    IF IsExc(config) \/ ~IsDict(config)
    THEN [table |-> matches, result |-> Exc("Exception"), saved |-> FALSE]
    ELSE IF IsNone(jd_check) \/ IsNone(cand_check)
    THEN [table |-> matches, result |-> None, saved |-> FALSE]
    ELSE IF ~Truthy(jd_check.summary_json) \/ ~Truthy(cand_check.extracted_data_json)
    THEN [table |-> matches, result |-> None, saved |-> FALSE]
    ELSE SaveTestedPair(calculate_match_score(test_jd_id, test_candidate_id),
                        TestThreshold(config))

----------------------------------------------------------------------------
(* run_matching_and_shortlisting (src/main.py) *)

\* the ids a SELECT without ORDER BY returns: in rowid order
RECURSIVE Ascending(_)
Ascending(S) ==
    IF S = {} THEN <<>>
    ELSE LET m == CHOOSE x \in S : \A y \in S : x <= y IN <<m>> \o Ascending(S \ {m})

\* "if not jd_summary_check or not jd_summary_check['summary_json']"
NoSummary(jd_id) ==
    jd_id \notin DOMAIN job_descriptions \/ ~Truthy(job_descriptions[jd_id].summary_json)

\* "if not cand_data_check or not cand_data_check['extracted_data_json']"
NoExtraction(candidate_id) ==
    candidate_id \notin DOMAIN candidates \/ ~Truthy(candidates[candidate_id].extracted_data_json)

SaveScore_Always(jd_id, candidate_id, result) ==
    add_or_update_match(jd_id, candidate_id, result.score, Dict(result.details))

\* "if score is not None: add_or_update_match(conn, jd_id, candidate_id, score, details)"
SaveScore(jd_id, candidate_id, result) ==
    IF ~IsNone(result.score)
    THEN add_or_update_match(jd_id, candidate_id, result.score, Dict(result.details))
    ELSE matches

\* the position after the last candidate of a job: the next job, or the
\* shortlisting loop after the last job
AfterJob(s) ==
    IF s.j < Len(s.all_jd_ids) THEN [s EXCEPT !.pc = "job", !.j = s.j + 1, !.c = 1]
    ELSE [s EXCEPT !.pc = "shortlist", !.j = 1, !.c = 1]

\* the position after a candidate: the next candidate, or the end of the job
AfterCandidate(s) ==
    IF s.c < Len(s.all_candidate_ids) THEN [s EXCEPT !.pc = "candidate", !.c = s.c + 1]
    ELSE AfterJob(s)

----------------------------------------------------------------------------
(* Inputs of the scoring calls *)

\* a list of strings
StrList(q) == List([i \in DOMAIN q |-> Str(q[i])])

ExperienceStrings ==
    {None, Str(""), Str("five years"), Str("5 years"), Str("0 years"), Str("3 years"),
     Str("3-5 years"), Str("2.5 years"), Str("10+ years"), Str("min. 1.5 yrs")}

CvYears ==
    {None, Str("five"), NaN, Num(-1, 1), Num(0, 1), Num(1, 2), Num(5, 2), Num(4, 1),
     Num(5, 1), Num(7, 1), Num(12, 1)}

EducationStrings ==
    {None, Str(""), Str("none"), Str("N/A"), Str("tbd"), Str("related field"),
     Str("Master's degree required"), Str("bachelor's degree"), Str("phd"), Str("bs"),
     Str("diploma or certificate"), Str("mba or equivalent")}

CvEducations ==
    {None, Str("master"), EmptyList,
     StrList(<<"bachelor of science">>), StrList(<<"master of science">>),
     StrList(<<"phd in physics">>), StrList(<<"high school">>),
     StrList(<<"Diploma in IT", "Bachelor of Arts">>),
     StrList(<<"master of science", "bachelor of arts">>)}

RequiredSkillLists ==
    {EmptyList, StrList(<<"python", "sql">>), StrList(<<"databases">>), StrList(<<"sql", "sql">>)}

PreferredSkillLists ==
    {EmptyList, StrList(<<"aws">>), StrList(<<"web development", "mysql">>)}

DomainLists == {EmptyList, StrList(<<"finance">>), StrList(<<"databases", "finance">>)}

SoftLists == {EmptyList, StrList(<<"teamwork", "communication">>)}

CvSkillLists ==
    {EmptyList, StrList(<<"python", "django">>), StrList(<<"sql", "mysql">>),
     StrList(<<"python3", "aws", "postgresql">>)}

CvDomainLists == {EmptyList, StrList(<<"finance">>), StrList(<<"sql", "finance">>)}

CvSoftLists == {EmptyList, StrList(<<"teamwork">>), StrList(<<"communication", "teamwork", "aws">>)}

EssentialLists ==
    {EmptyList, StrList(<<"aws certified">>), StrList(<<"aws certified", "bachelor">>),
     StrList(<<"PMP", "pmp">>), StrList(<<"science bachelor", "sql">>), StrList(<<"sql", "sql", "phd">>)}

CvCertLists == {EmptyList, StrList(<<"aws certified">>), StrList(<<"pmp">>)}

CvEducationLists ==
    {EmptyList, StrList(<<"Bachelor of Science">>),
     StrList(<<"master of science", "bachelor of arts">>)}

\* job summaries and candidate extractions as the cleaning steps store them
JobCatalogue ==
    << [required_skills |-> StrList(<<"python", "sql">>), preferred_skills |-> EmptyList,
        domain_expertise |-> EmptyList, soft_skills |-> EmptyList,
        required_education |-> Str("bachelor's degree"),
        required_experience_years |-> Str("3 years"),
        essential_requirements |-> EmptyList],
       [required_skills |-> StrList(<<"databases">>), preferred_skills |-> StrList(<<"aws">>),
        domain_expertise |-> EmptyList, soft_skills |-> EmptyList,
        required_education |-> Str("master's degree required"),
        required_experience_years |-> Str("5 years"),
        essential_requirements |-> StrList(<<"aws certified">>)],
       [required_skills |-> EmptyList, preferred_skills |-> EmptyList,
        domain_expertise |-> StrList(<<"finance">>),
        soft_skills |-> StrList(<<"teamwork", "communication">>),
        required_education |-> Str("related field"),
        required_experience_years |-> None,
        essential_requirements |-> StrList(<<"pmp", "bachelor">>)],
       [required_skills |-> StrList(<<"web development", "python", "sql">>),
        required_education |-> None,
        required_experience_years |-> Str("3-5 years")] >>

CandidateCatalogue ==
    << [skills |-> StrList(<<"python", "django">>), soft_skills |-> EmptyList,
        domain_expertise |-> EmptyList, certifications |-> EmptyList,
        education |-> StrList(<<"bachelor of science">>),
        total_experience_years |-> Num(4, 1)],
       [skills |-> StrList(<<"sql", "mysql", "aws">>), soft_skills |-> StrList(<<"teamwork">>),
        domain_expertise |-> EmptyList, certifications |-> StrList(<<"aws certified">>),
        education |-> StrList(<<"Master of Science">>),
        total_experience_years |-> Num(5, 2)],
       [skills |-> EmptyList, soft_skills |-> StrList(<<"teamwork", "communication">>),
        domain_expertise |-> StrList(<<"finance">>), certifications |-> StrList(<<"pmp">>),
        education |-> StrList(<<"phd in physics", "bachelor of arts">>),
        total_experience_years |-> Num(12, 1)],
       [skills |-> StrList(<<"flask", "html">>), education |-> EmptyList,
        total_experience_years |-> None] >>

\* the i-th record of a catalogue, going round when i passes its end
Pick(catalogue, i) == catalogue[((i - 1) % Len(catalogue)) + 1]

WeightMaps ==
    { DEFAULT_WEIGHTS,
      [skills |-> Num(1, 1), experience |-> Num(1, 1), education |-> Num(1, 1),
       requirements |-> Num(1, 1)],
      [skills |-> Num(1, 2), experience |-> Num(-1, 1), education |-> Num(0, 1),
       requirements |-> Num(1, 10)],
      [skills |-> Num(1, 5), education |-> Num(3, 10)] }

\* a config.yaml with every required key, the given matching_weights and the
\* given shortlisting_threshold
BaseConfig ==
    [ollama_model |-> Str("llama3"), database_path |-> Str("data/screening.db"),
     shortlisting_threshold |-> Num(3, 4), cv_directory |-> Str("data/cvs"),
     jd_csv_path |-> Str("data/jobs.csv")]

ConfigFile(weights, threshold) ==
    Yaml(Dict([k \in DOMAIN BaseConfig \cup {"matching_weights"} |->
                  CASE k = "matching_weights"       -> weights
                    [] k = "shortlisting_threshold" -> threshold
                    [] OTHER                        -> BaseConfig[k]]))

\* values of matching_weights that are no mapping, and mappings with a value
\* that is no number
MalformedWeights ==
    { List(<<Num(2, 5), Num(3, 5)>>), Str("high"), None, Num(1, 1),
      Dict([skills |-> Str("high"), experience |-> Num(25, 100),
            education |-> Num(25, 100), requirements |-> Num(1, 10)]),
      Dict([skills |-> None]) }

\* the states config.yaml is started with
ConfigFiles ==
    {NoFile, BadYaml, Yaml(None), Yaml(Dict(BaseConfig)),
     Yaml(Dict([k \in DOMAIN BaseConfig \ {"database_path"} |-> BaseConfig[k]])),
     Yaml(List(<<Str("ollama_model"), Str("database_path"), Str("shortlisting_threshold"),
                 Str("cv_directory"), Str("jd_csv_path")>>))}
    \cup {ConfigFile(Dict(w), Num(3, 4)) : w \in WeightMaps \cup {[k \in {} |-> None]}}
    \cup {ConfigFile(w, Num(3, 4)) : w \in MalformedWeights}

\* every key and every member of SKILL_SYNONYMS
TableTerms ==
    {SKILL_SYNONYMS[k][1] : k \in DOMAIN SKILL_SYNONYMS}
    \cup UNION {{SKILL_SYNONYMS[k][2][j] : j \in DOMAIN SKILL_SYNONYMS[k][2]} :
                  k \in DOMAIN SKILL_SYNONYMS}

\* terms that skill sets are drawn from in groups: categories, members of one
\* and of two categories, and terms the table does not know
GroupTerms == {"databases", "sql", "mysql", "machine learning", "ai", "python3", "leadership", "excel"}

\* the skill sets handed to expand_skills: the empty set, every single table
\* term, and the groups of up to three terms
SkillSets ==
    {{Str(x)} : x \in TableTerms}
    \cup {{Str(x) : x \in G} : G \in {H \in SUBSET GroupTerms : Cardinality(H) <= 3}}

\* values of shortlisting_threshold in config.json
Thresholds == {Num(1, 2), Num(3, 4)}

\* values of shortlisting_threshold over the whole of [0, 1], both ends included
ThresholdRange == {Num(0, 1), Num(1, 4), Num(3, 4), Num(1, 1)}

\* (score, details) pairs handed to add_or_update_match
MatchInputs ==
    { [score |-> Num(1, 2), details |-> Dict([i \in {} |-> None])],
      [score |-> Num(4, 5), details |-> Dict([skills_score |-> Num(4, 5)])] }

\* the jobs and candidates of the store the shortlister is exercised on
StoreJobIds == {1, 2}

StoreCandidateIds == {1, 2}

\* the candidates row of a CV file whose extraction is payload
CandidateRow(i, payload) ==
    [t |-> "row", cv_filename |-> Str("C" \o ToString(i) \o ".pdf"),
     extracted_data_json |-> payload]

\* summary_json columns a database file can hold: summaries the summarizer
\* stored, NULL where it failed, and text other writers of the file left (not
\* JSON, JSON that is not an object, objects with keys absent, with an extra
\* key, with a null skill field, with a requirement that is not a string)
StoredSummaries ==
    << Json(Dict(JobCatalogue[1])),
       Str("{not json"),
       Json(Dict(JobCatalogue[2])),
       None,
       Json(Dict([title |-> Str("analyst"), required_skills |-> StrList(<<"sql">>)])),
       Json(List(<<Str("python")>>)),
       Json(Dict([required_skills |-> None, required_education |-> Str("bachelor")])),
       Json(Dict([required_skills |-> StrList(<<"python">>),
                  essential_requirements |-> List(<<Num(5, 1)>>)])) >>

\* extracted_data_json columns a database file can hold
StoredExtractions ==
    << Json(Dict(CandidateCatalogue[1])),
       Json(Dict([name |-> Str("dummy"), skills |-> StrList(<<"python">>)])),
       Str(""),
       Json(Dict(CandidateCatalogue[2])),
       Str("oops"),
       Json(Num(7, 1)),
       Json(Dict([skills |-> None])),
       Json(Dict([i \in {} |-> None])) >>

MaxJobs == 3

MaxCandidates == 3

JobIds == 1..MaxJobs

CandidateIds == 1..MaxCandidates

----------------------------------------------------------------------------
(* Ingestion: process_job_descriptions and process_cvs (src/main.py) with  *)
(* their table writers (src/utils/database_utils.py).  The language model   *)
(* behind summarize_job_description and extract_cv_data either fails (None) *)
(* or gives a cleaned object.                                               *)

\* the rows of the job CSV: the second has no description
JobCsv ==
    << [title |-> "Software Engineer", description |-> "Builds web services in python and sql."],
       [title |-> "Intern", description |-> ""],
       [title |-> "Data Scientist", description |-> "Builds models; machine learning, 3 years."] >>

\* the PDF files of the CV directory with the text extracted from each: the
\* second is a scan that gives fewer than 50 characters
CvFiles ==
    << [name |-> "C1164.pdf",
        text |-> "Jane Roe. Python developer, four years of django and sql. BSc."],
       [name |-> "C2000.pdf", text |-> "page 1"],
       [name |-> "C3001.pdf",
        text |-> "John Doe. Data analyst, two years of tableau and excel. MSc."] >>

\* pipeline runs over the same CSV and the same CV files
MaxRuns == 2

\* add_job_description: INSERT of a new row, whose AUTOINCREMENT id is returned
add_job_description(title, description) ==
    LET jd_id == Cardinality(DOMAIN job_descriptions) + 1
    IN  [table |-> [i \in DOMAIN job_descriptions \cup {jd_id} |->
                       IF i = jd_id
                       THEN [t |-> "row", title |-> title, original_description |-> description,
                             summary_json |-> None]
                       ELSE job_descriptions[i]],
         jd_id |-> jd_id]

\* update_jd_summary: the summary is stored as json.dumps(summary)
update_jd_summary(table, jd_id, summary) ==
    [table EXCEPT ![jd_id].summary_json = Json(summary)]

\* add_candidate: the id of the row with this file name, or a new row
add_candidate(cv_filename, cv_text) ==
    LET result == {i \in DOMAIN candidates : candidates[i].cv_filename = Str(cv_filename)}
        candidate_id == Cardinality(DOMAIN candidates) + 1
    IN  IF result # {}
        THEN [table |-> candidates, candidate_id |-> CHOOSE i \in result : TRUE]
        ELSE [table |-> [i \in DOMAIN candidates \cup {candidate_id} |->
                            IF i = candidate_id
                            THEN [t |-> "row", cv_filename |-> Str(cv_filename),
                                  cv_text |-> cv_text, extracted_data_json |-> None]
                            ELSE candidates[i]],
              candidate_id |-> candidate_id]

update_candidate_extraction(table, candidate_id, extracted_data) ==
    [table EXCEPT ![candidate_id].extracted_data_json = Json(extracted_data)]

\* what summarize_job_description can return for row i of the CSV
SummarizerOutcomes(i) == {None, Dict(Pick(JobCatalogue, i))}

\* what extract_cv_data can return for file i of the directory
ExtractorOutcomes(i) == {None, Dict(Pick(CandidateCatalogue, i))}

\* position after row i of the CSV: the next row, or the first CV file
AfterJobRow(i, invoked) ==
    [pc |-> IF i < Len(JobCsv) THEN "jds" ELSE "cvs",
     i |-> IF i < Len(JobCsv) THEN i + 1 ELSE 1,
     run |-> pipeline.run, invoked |-> invoked]

\* position after file i: the next file, or the end of the run
AfterCvFile(i, invoked) ==
    IF i < Len(CvFiles)
    THEN [pc |-> "cvs", i |-> i + 1, run |-> pipeline.run, invoked |-> invoked]
    ELSE [pc |-> "idle", run |-> pipeline.run + 1, invoked |-> invoked]

----------------------------------------------------------------------------
(* State machine *)

Idle == [fn |-> "idle"]

NotScored == [t |-> "notscored"]

NoTable == [i \in {} |-> None]

\* a module-level name of a module that has not been imported, or whose import failed
Unbound == [t |-> "unbound"]

\* the pipeline is not inside process_job_descriptions or process_cvs
NotIngesting == [pc |-> "idle", run |-> 0]

\* run_matching_and_shortlisting has not been called
NotRunning == [pc |-> "idle"]

\* the scorers called on their own, before any record is stored
Init ==
    /\ call = Idle
    /\ hash_seed \in HashSeeds
    /\ job_descriptions = NoTable
    /\ candidates = NoTable
    /\ MATCHING_WEIGHTS = DEFAULT_WEIGHTS
    /\ returned = NotScored
    /\ matches = <<>>
    /\ SHORTLISTING_THRESHOLD = DEFAULT_THRESHOLD
    /\ sweep = NotRunning
    /\ pipeline = NotIngesting
    /\ CONFIG_FILE = ConfigFile(Dict(MATCHING_WEIGHTS), SHORTLISTING_THRESHOLD)

\* the store holds MaxJobs summarized jobs and MaxCandidates extracted candidates
InitMatch ==
    /\ call = Idle
    /\ hash_seed \in HashSeeds
    /\ job_descriptions =
           [i \in JobIds |-> [t |-> "row", summary_json |-> Json(Dict(Pick(JobCatalogue, i)))]]
    /\ candidates =
           [i \in CandidateIds |->
               [t |-> "row", extracted_data_json |-> Json(Dict(Pick(CandidateCatalogue, i)))]]
    /\ MATCHING_WEIGHTS \in WeightMaps
    /\ returned = NotScored
    /\ matches = <<>>
    /\ SHORTLISTING_THRESHOLD = DEFAULT_THRESHOLD
    /\ sweep = NotRunning
    /\ pipeline = NotIngesting
    /\ CONFIG_FILE = ConfigFile(Dict(MATCHING_WEIGHTS), SHORTLISTING_THRESHOLD)

\* the same store before matching_agent is imported, with config.yaml in any
\* of the states of ConfigFiles
InitConfig ==
    /\ call = Idle
    /\ hash_seed \in HashSeeds
    /\ job_descriptions =
           [i \in JobIds |-> [t |-> "row", summary_json |-> Json(Dict(Pick(JobCatalogue, i)))]]
    /\ candidates =
           [i \in CandidateIds |->
               [t |-> "row", extracted_data_json |-> Json(Dict(Pick(CandidateCatalogue, i)))]]
    /\ MATCHING_WEIGHTS = Unbound
    /\ returned = NotScored
    /\ matches = <<>>
    /\ SHORTLISTING_THRESHOLD = Unbound
    /\ sweep = NotRunning
    /\ pipeline = NotIngesting
    /\ CONFIG_FILE \in ConfigFiles

\* a database file in which create_tables has just made the empty tables
InitIngest ==
    /\ call = Idle
    /\ hash_seed \in HashSeeds
    /\ job_descriptions = NoTable
    /\ candidates = NoTable
    /\ MATCHING_WEIGHTS = DEFAULT_WEIGHTS
    /\ returned = NotScored
    /\ matches = <<>>
    /\ SHORTLISTING_THRESHOLD = DEFAULT_THRESHOLD
    /\ sweep = NotRunning
    /\ CONFIG_FILE = ConfigFile(Dict(MATCHING_WEIGHTS), SHORTLISTING_THRESHOLD)
    /\ pipeline = NotIngesting

\* a store that holds the job and the candidate of the test block, each with
\* any summary or extraction of the catalogues, and no match yet
InitSingle ==
    /\ call = Idle
    /\ hash_seed \in HashSeeds
    /\ \E a \in DOMAIN JobCatalogue :
          job_descriptions =
              [i \in {test_jd_id} |-> [t |-> "row", summary_json |-> Json(Dict(JobCatalogue[a]))]]
    /\ \E b \in DOMAIN CandidateCatalogue :
          candidates =
              [i \in {test_candidate_id} |->
                  CandidateRow(i, Json(Dict(CandidateCatalogue[b])))]
    /\ MATCHING_WEIGHTS = DEFAULT_WEIGHTS
    /\ returned = NotScored
    /\ matches = <<>>
    /\ SHORTLISTING_THRESHOLD \in Thresholds
    /\ sweep = NotRunning
    /\ CONFIG_FILE = ConfigFile(Dict(MATCHING_WEIGHTS), SHORTLISTING_THRESHOLD)
    /\ pipeline = NotIngesting

\* a store of summarized jobs and extracted candidates with no match yet
InitStore ==
    /\ call = Idle
    /\ hash_seed \in HashSeeds
    /\ job_descriptions =
           [i \in StoreJobIds |->
               [t |-> "row", summary_json |-> Json(Dict(Pick(JobCatalogue, i)))]]
    /\ candidates =
           [i \in StoreCandidateIds |->
               CandidateRow(i, Json(Dict(Pick(CandidateCatalogue, i))))]
    /\ MATCHING_WEIGHTS = DEFAULT_WEIGHTS
    /\ returned = NotScored
    /\ matches = <<>>
    /\ SHORTLISTING_THRESHOLD \in Thresholds
    /\ sweep = NotRunning
    /\ pipeline = NotIngesting
    /\ CONFIG_FILE = ConfigFile(Dict(MATCHING_WEIGHTS), SHORTLISTING_THRESHOLD)

\* a database file of MaxJobs jobs and MaxCandidates candidates whose columns
\* are consecutive entries of StoredSummaries and StoredExtractions, no match yet
SweepStore(first_summary, first_extraction, thresholds) ==
    /\ job_descriptions =
           [i \in JobIds |->
               [t |-> "row", summary_json |-> Pick(StoredSummaries, first_summary + i - 1)]]
    /\ candidates =
           [i \in CandidateIds |->
               CandidateRow(i, Pick(StoredExtractions, first_extraction + i - 1))]
    /\ call = Idle
    /\ hash_seed \in HashSeeds
    /\ MATCHING_WEIGHTS = DEFAULT_WEIGHTS
    /\ returned = NotScored
    /\ matches = <<>>
    /\ SHORTLISTING_THRESHOLD \in thresholds
    /\ sweep = NotRunning
    /\ pipeline = NotIngesting
    /\ CONFIG_FILE = ConfigFile(Dict(MATCHING_WEIGHTS), SHORTLISTING_THRESHOLD)

InitSweep ==
    \E first_summary \in DOMAIN StoredSummaries, first_extraction \in DOMAIN StoredExtractions :
        SweepStore(first_summary, first_extraction, Thresholds)

\* the same, with summaries and extractions that all can be scored or skipped
InitSweepRemoval == SweepStore(1, 1, {DEFAULT_THRESHOLD})

\* a database file in which the second job has a summary that is not JSON and
\* a candidate between others has an extraction that is not JSON ("oops"),
\* under a threshold from anywhere in [0, 1]
InitMalformed ==
    \E first_extraction \in {3, 4} :
        SweepStore(1, first_extraction, ThresholdRange)

Frame ==
    UNCHANGED <<pipeline, hash_seed, job_descriptions, candidates, MATCHING_WEIGHTS, CONFIG_FILE, returned,
                matches, SHORTLISTING_THRESHOLD, sweep>>

SkillMatchCall ==
    /\ call = Idle
    /\ \E req \in RequiredSkillLists, pref \in PreferredSkillLists, dom \in DomainLists,
          sft \in SoftLists, sk \in CvSkillLists, cdom \in CvDomainLists, csft \in CvSoftLists :
          LET jd_data == [required_skills |-> req, preferred_skills |-> pref,
                          domain_expertise |-> dom, soft_skills |-> sft]
              cv_data == [skills |-> sk, domain_expertise |-> cdom, soft_skills |-> csft]
          IN  call' = [fn |-> "calculate_skill_match", jd_data |-> jd_data, cv_data |-> cv_data,
                       result |-> calculate_skill_match(jd_data, cv_data)]
    /\ Frame

EssentialRequirementsCall ==
    /\ call = Idle
    /\ \E reqs \in EssentialLists, sk \in CvSkillLists, ce \in CvCertLists,
          edu \in CvEducationLists :
          LET jd_data == [essential_requirements |-> reqs]
              cv_data == [skills |-> sk, certifications |-> ce, education |-> edu]
          IN  call' = [fn |-> "check_essential_requirements", jd_data |-> jd_data,
                       cv_data |-> cv_data,
                       result |-> check_essential_requirements(jd_data, cv_data)]
    /\ Frame

EducationMatchCall ==
    /\ call = Idle
    /\ \E jd \in EducationStrings, cv \in CvEducations :
          call' = [fn |-> "calculate_education_match", jd |-> jd, cv |-> cv,
                   result |-> calculate_education_match(jd, cv)]
    /\ Frame

ExperienceMatchCall ==
    /\ call = Idle
    /\ \E jd \in ExperienceStrings, cv \in CvYears :
          call' = [fn |-> "calculate_experience_match", jd |-> jd, cv |-> cv,
                   result |-> calculate_experience_match(jd, cv)]
    /\ Frame

\* expand_skills is called on a skill set
ExpandSkillsCall ==
    /\ call = Idle
    /\ \E skill_set \in SkillSets :
          call' = [fn |-> "expand_skills", skill_set |-> skill_set, origin |-> skill_set,
                   pass |-> 1, result |-> expand_skills(skill_set, SKILL_SYNONYMS)]
    /\ Frame

\* expand_skills is called on the set its previous call returned
ExpandAgainCall ==
    /\ call.fn = "expand_skills"
    /\ call.pass = 1
    /\ call' = [fn |-> "expand_skills", skill_set |-> call.result, origin |-> call.origin,
                pass |-> 2, result |-> expand_skills(call.result, SKILL_SYNONYMS)]
    /\ Frame

\* matching_agent is imported by a fresh interpreter: its "Load Config" block
\* binds MATCHING_WEIGHTS, or raises and leaves the module unusable
ImportMatchingAgent ==
    /\ call = Idle
    /\ MATCHING_WEIGHTS = Unbound
    /\ LET loaded == LoadMatchingWeights
       IN  /\ call' = [fn |-> "import matching_agent",
                       result |-> IF IsExc(loaded) THEN loaded ELSE None]
           /\ MATCHING_WEIGHTS' = IF IsExc(loaded) THEN Unbound ELSE loaded.v
    /\ UNCHANGED <<pipeline, hash_seed, job_descriptions, candidates, CONFIG_FILE, returned,
                   matches, SHORTLISTING_THRESHOLD, sweep>>

MatchScoreCall_Saves ==
    /\ call = Idle
    /\ MATCHING_WEIGHTS # Unbound
    /\ \E jd_id \in JobIds, candidate_id \in CandidateIds :
          call' = [fn |-> "calculate_match_score", jd_id |-> jd_id,
                   candidate_id |-> candidate_id,
                   result |-> calculate_match_score(jd_id, candidate_id)]
    /\ \E keep \in BOOLEAN :
          returned' = IF keep
                      THEN [t |-> "kept", jd_id |-> call'.jd_id,
                            candidate_id |-> call'.candidate_id, hash_seed |-> hash_seed,
                            result |-> call'.result]
                      ELSE returned
    /\ matches' = IF call'.result.t = "result"
                  THEN add_or_update_match(call'.jd_id, call'.candidate_id,
                                           call'.result.score, Dict(call'.result.details))
                  ELSE matches
    /\ UNCHANGED <<pipeline, hash_seed, job_descriptions, candidates, MATCHING_WEIGHTS,
                   CONFIG_FILE, SHORTLISTING_THRESHOLD, sweep>>

\* calculate_match_score is called for a pair; the caller may keep what it returns
MatchScoreCall ==
    /\ call = Idle
    /\ MATCHING_WEIGHTS # Unbound
    /\ \E jd_id \in JobIds, candidate_id \in CandidateIds :
          call' = [fn |-> "calculate_match_score", jd_id |-> jd_id,
                   candidate_id |-> candidate_id,
                   result |-> calculate_match_score(jd_id, candidate_id)]
    /\ \E keep \in BOOLEAN :
          returned' = IF keep
                      THEN [t |-> "kept", jd_id |-> call'.jd_id,
                            candidate_id |-> call'.candidate_id, hash_seed |-> hash_seed,
                            result |-> call'.result]
                      ELSE returned
    /\ UNCHANGED <<pipeline, hash_seed, job_descriptions, candidates, MATCHING_WEIGHTS, CONFIG_FILE,
                   matches, SHORTLISTING_THRESHOLD, sweep>>

\* add_or_update_match is called for a stored job and a stored candidate
AddOrUpdateMatchCall ==
    /\ call = Idle
    /\ \E jd_id \in DOMAIN job_descriptions, candidate_id \in DOMAIN candidates,
          in \in MatchInputs :
          /\ matches' = add_or_update_match(jd_id, candidate_id, in.score, in.details)
          /\ call' = [fn |-> "add_or_update_match", jd_id |-> jd_id,
                      candidate_id |-> candidate_id, score |-> in.score,
                      details |-> in.details, result |-> TRUE]
    /\ UNCHANGED <<pipeline, hash_seed, job_descriptions, candidates, MATCHING_WEIGHTS, CONFIG_FILE, returned,
                   SHORTLISTING_THRESHOLD, sweep>>

\* shortlist_candidates_for_jd is called for a job; before holds the flags the
\* rows had when it was called
ShortlistCall ==
    /\ call = Idle
    /\ \E jd_id \in DOMAIN job_descriptions : \E all_matches \in get_matches_for_jd(jd_id) :
          LET done == shortlist_candidates_for_jd(jd_id, all_matches)
          IN  /\ matches' = done.table
              /\ call' = [fn |-> "shortlist_candidates_for_jd", jd_id |-> jd_id,
                          result |-> done.shortlisted_candidates,
                          before |-> [i \in DOMAIN matches |-> matches[i].shortlist_status]]
    /\ UNCHANGED <<pipeline, hash_seed, job_descriptions, candidates, MATCHING_WEIGHTS, CONFIG_FILE, returned,
                   SHORTLISTING_THRESHOLD, sweep>>

\* the program is started again after the threshold in config.yaml was edited:
\* the shortlisting agent reads its threshold anew
RestartWithConfig ==
    /\ call = Idle
    /\ hash_seed' \in HashSeeds
    /\ \E threshold \in Thresholds \ {SHORTLISTING_THRESHOLD} :
          CONFIG_FILE' = ConfigFile(Dict(MATCHING_WEIGHTS), threshold)
    /\ SHORTLISTING_THRESHOLD' = LoadShortlistingThreshold'
    /\ UNCHANGED <<pipeline, call, job_descriptions, candidates, MATCHING_WEIGHTS, returned,
                   matches, sweep>>

\* run_matching_and_shortlisting is called: it reads the ids and returns at
\* once when there is no job or no candidate
SweepStart ==
    /\ sweep.pc = "idle"
    /\ call = Idle
    /\ LET all_jd_ids == Ascending(DOMAIN job_descriptions)
           all_candidate_ids == Ascending(DOMAIN candidates)
       IN  sweep' = [pc |-> IF all_jd_ids = <<>> \/ all_candidate_ids = <<>>
                            THEN "done" ELSE "job",
                     all_jd_ids |-> all_jd_ids, all_candidate_ids |-> all_candidate_ids,
                     j |-> 1, c |-> 1, scored |-> <<>>, shortlisted |-> <<>>,
                     last |-> NotScored]
    /\ UNCHANGED <<pipeline, call, hash_seed, job_descriptions, candidates, MATCHING_WEIGHTS, CONFIG_FILE,
                   returned, matches, SHORTLISTING_THRESHOLD>>

\* "for jd_id in all_jd_ids": a job without summary is skipped
SweepJob ==
    /\ sweep.pc = "job"
    /\ sweep' = IF NoSummary(sweep.all_jd_ids[sweep.j]) THEN AfterJob(sweep)
                ELSE [sweep EXCEPT !.pc = "candidate", !.c = 1]
    /\ UNCHANGED <<pipeline, call, hash_seed, job_descriptions, candidates, MATCHING_WEIGHTS, CONFIG_FILE,
                   returned, matches, SHORTLISTING_THRESHOLD>>

\* "for candidate_id in all_candidate_ids": a candidate without extraction is skipped
SweepCandidate ==
    /\ sweep.pc = "candidate"
    /\ sweep' = IF NoExtraction(sweep.all_candidate_ids[sweep.c]) THEN AfterCandidate(sweep)
                ELSE [sweep EXCEPT !.pc = "score"]
    /\ UNCHANGED <<pipeline, call, hash_seed, job_descriptions, candidates, MATCHING_WEIGHTS, CONFIG_FILE,
                   returned, matches, SHORTLISTING_THRESHOLD>>

\* the pair is scored and its score saved; an exception that calculate_match_score
\* raises is caught nowhere in run_matching_and_shortlisting and ends it
SweepScore ==
    /\ sweep.pc = "score"
    /\ LET jd_id == sweep.all_jd_ids[sweep.j]
           candidate_id == sweep.all_candidate_ids[sweep.c]
           result == calculate_match_score(jd_id, candidate_id)
           seen == [sweep EXCEPT !.scored = Append(@, <<jd_id, candidate_id>>),
                                 !.last = result]
       IN  IF IsExc(result)
           THEN /\ sweep' = [seen EXCEPT !.pc = "raised"]
                /\ matches' = matches
           ELSE /\ sweep' = AfterCandidate(seen)
                /\ matches' = SaveScore(jd_id, candidate_id, result)
    /\ UNCHANGED <<pipeline, call, hash_seed, job_descriptions, candidates, MATCHING_WEIGHTS, CONFIG_FILE,
                   returned, SHORTLISTING_THRESHOLD>>

\* the second loop "for jd_id in all_jd_ids": shortlisting of one job
SweepShortlist ==
    /\ sweep.pc = "shortlist"
    /\ LET jd_id == sweep.all_jd_ids[sweep.j]
       IN  \E all_matches \in get_matches_for_jd(jd_id) :
              /\ matches' = shortlist_candidates_for_jd(jd_id, all_matches).table
              /\ sweep' = [sweep EXCEPT !.shortlisted = Append(@, jd_id),
                                        !.pc = IF sweep.j < Len(sweep.all_jd_ids)
                                               THEN "shortlist" ELSE "done",
                                        !.j = IF sweep.j < Len(sweep.all_jd_ids)
                                              THEN sweep.j + 1 ELSE sweep.j]
    /\ UNCHANGED <<pipeline, call, hash_seed, job_descriptions, candidates, MATCHING_WEIGHTS, CONFIG_FILE,
                   returned, SHORTLISTING_THRESHOLD>>

\* while the sweep runs, another user of the database file deletes a job row
\* or a candidate row (check_missing_candidates.py looks for what that leaves);
\* one row of each table at most goes missing during a run
RowRemoved ==
    /\ sweep.pc \in {"job", "candidate", "score"}
    /\ \/ /\ Cardinality(DOMAIN job_descriptions) = Len(sweep.all_jd_ids)
          /\ \E jd_id \in DOMAIN job_descriptions :
                job_descriptions' = [i \in DOMAIN job_descriptions \ {jd_id} |->
                                        job_descriptions[i]]
          /\ candidates' = candidates
       \/ /\ Cardinality(DOMAIN candidates) = Len(sweep.all_candidate_ids)
          /\ \E candidate_id \in DOMAIN candidates :
                candidates' = [i \in DOMAIN candidates \ {candidate_id} |-> candidates[i]]
          /\ job_descriptions' = job_descriptions
    /\ UNCHANGED <<pipeline, call, hash_seed, MATCHING_WEIGHTS, CONFIG_FILE, returned, matches,
                   SHORTLISTING_THRESHOLD, sweep>>

\* the call returns to its caller
\* the pipeline is started: process_job_descriptions reads the CSV
PipelineStart ==
    /\ pipeline.pc = "idle"
    /\ pipeline.run < MaxRuns
    /\ pipeline' = [pc |-> "jds", i |-> 1, run |-> pipeline.run, invoked |-> "none"]
    /\ UNCHANGED <<call, hash_seed, job_descriptions, candidates, MATCHING_WEIGHTS,
                   CONFIG_FILE, returned, matches, SHORTLISTING_THRESHOLD, sweep>>

\* one iteration of "for index, row in jds_df.iterrows()"
ProcessJobRow ==
    /\ pipeline.pc = "jds"
    /\ LET row == JobCsv[pipeline.i]
           added == add_job_description(row.title, row.description)
           existing_summary == added.table[added.jd_id].summary_json
       IN  IF row.description = ""
           THEN /\ job_descriptions' = job_descriptions
                /\ pipeline' = AfterJobRow(pipeline.i, "none")
           ELSE IF Truthy(existing_summary)
           THEN /\ job_descriptions' = added.table
                /\ pipeline' = AfterJobRow(pipeline.i, "none")
           ELSE \E summary \in SummarizerOutcomes(pipeline.i) :
                   /\ job_descriptions' =
                          IF Truthy(summary)
                          THEN update_jd_summary(added.table, added.jd_id, summary)
                          ELSE added.table
                   /\ pipeline' = AfterJobRow(pipeline.i, "summarize_job_description")
    /\ UNCHANGED <<call, hash_seed, candidates, MATCHING_WEIGHTS, CONFIG_FILE, returned,
                   matches, SHORTLISTING_THRESHOLD, sweep>>

\* one iteration of "for pdf_path in pdf_files"
ProcessCvFile ==
    /\ pipeline.pc = "cvs"
    /\ LET pdf_path == CvFiles[pipeline.i]
           cv_text == pdf_path.text
           added == add_candidate(pdf_path.name, cv_text)
           existing_data == added.table[added.candidate_id].extracted_data_json
       IN  IF cv_text = "" \/ Len(cv_text) < 50
           THEN /\ candidates' = candidates
                /\ pipeline' = AfterCvFile(pipeline.i, "none")
           ELSE IF Truthy(existing_data)
           THEN /\ candidates' = added.table
                /\ pipeline' = AfterCvFile(pipeline.i, "none")
           ELSE \E extracted_data \in ExtractorOutcomes(pipeline.i) :
                   /\ candidates' =
                          IF Truthy(extracted_data)
                          THEN update_candidate_extraction(added.table, added.candidate_id,
                                                           extracted_data)
                          ELSE added.table
                   /\ pipeline' = AfterCvFile(pipeline.i, "extract_cv_data")
    /\ UNCHANGED <<call, hash_seed, job_descriptions, MATCHING_WEIGHTS, CONFIG_FILE, returned,
                   matches, SHORTLISTING_THRESHOLD, sweep>>

\* matching_agent is run as a script: its test block scores one pair
SinglePairTestRun ==
    /\ call = Idle
    /\ call' = [fn |-> "matching_agent __main__", threshold |-> TestThreshold(load_config),
                run |-> SinglePairTest(load_config, get_jd(test_jd_id),
                                       get_candidate(test_candidate_id))]
    /\ matches' = call'.run.table
    /\ UNCHANGED <<pipeline, hash_seed, job_descriptions, candidates, MATCHING_WEIGHTS,
                   CONFIG_FILE, returned, SHORTLISTING_THRESHOLD, sweep>>

Return ==
    /\ call # Idle
    /\ call' = Idle
    /\ Frame

\* the program is started again: a new interpreter, a new hash seed, the same store
\* and the same configuration
Restart ==
    /\ call = Idle
    /\ hash_seed' \in HashSeeds \ {hash_seed}
    /\ UNCHANGED <<pipeline, call, job_descriptions, candidates, MATCHING_WEIGHTS, CONFIG_FILE, returned,
                   matches, SHORTLISTING_THRESHOLD, sweep>>

Next ==
    \/ SkillMatchCall
    \/ EssentialRequirementsCall
    \/ EducationMatchCall
    \/ ExperienceMatchCall
    \/ Return
    \/ Restart

Spec == Init /\ [][Next]_vars

NextMatch ==
    \/ MatchScoreCall
    \/ Return
    \/ Restart

SpecMatch == InitMatch /\ [][NextMatch]_vars

NextStore ==
    \/ AddOrUpdateMatchCall
    \/ ShortlistCall
    \/ RestartWithConfig
    \/ Return

SpecStore == InitStore /\ [][NextStore]_vars

NextSweep ==
    \/ SweepStart
    \/ SweepJob
    \/ SweepCandidate
    \/ SweepScore
    \/ SweepShortlist

SpecSweep == InitSweep /\ [][NextSweep]_vars

NextSweepRemoval ==
    \/ NextSweep
    \/ RowRemoved

SpecSweepRemoval == InitSweepRemoval /\ [][NextSweepRemoval]_vars

\* a run of the pipeline, and shortlist_candidates_for_jd called on its store
NextMalformed ==
    \/ NextSweep
    \/ ShortlistCall
    \/ Return

SpecMalformed == InitMalformed /\ [][NextMalformed]_vars

NextConfig ==
    \/ ImportMatchingAgent
    \/ MatchScoreCall
    \/ Return

SpecConfig == InitConfig /\ [][NextConfig]_vars

NextIngest ==
    \/ PipelineStart
    \/ ProcessJobRow
    \/ ProcessCvFile

SpecIngest == InitIngest /\ [][NextIngest]_vars

NextSingle ==
    \/ SinglePairTestRun
    \/ ShortlistCall
    \/ RestartWithConfig
    \/ Return

SpecSingle == InitSingle /\ [][NextSingle]_vars

NextExpand ==
    \/ ExpandSkillsCall
    \/ ExpandAgainCall
    \/ Return
    \/ Restart

SpecExpand == Init /\ [][NextExpand]_vars

----------------------------------------------------------------------------
(* Properties of the component scorers (checked under Spec) *)

InUnit(x) == IsNum(x) /\ Leq(Zero, x) /\ Leq(x, One)

ComponentScorers ==
    {"calculate_skill_match", "calculate_experience_match", "calculate_education_match",
     "check_essential_requirements"}

\* highest hierarchy level of a degree keyword that occurs in text, 0 when none does
KeywordLevel(text) ==
    LET levels == {degree_hierarchy[i][2] :
                      i \in {j \in DOMAIN degree_hierarchy : Contains(text, degree_hierarchy[j][1])}}
    IN  IF levels = {} THEN 0 ELSE CHOOSE l \in levels : \A m \in levels : m <= l

\* C1: every score a component scorer returns lies in [0,1], also when a JD
\* skill is a synonym category of which the candidate lists several members.
C1_ComponentScoresInUnitInterval ==
    call.fn \in ComponentScorers => InUnit(call.result)

\* C5: calculate_skill_match returns the sum of sub_score * sub_weight over the
\* categories whose raw JD set is non-empty, divided by the sum of their
\* sub_weights; required and preferred are matched against the union of the
\* candidate's skills, domain expertise and soft skills, domain against the
\* candidate's domain expertise only, soft skills unexpanded against the
\* candidate's soft skills; with no category in the JD the result is 0.5.
C5_SkillScoreIsRenormalizedWeightedMean ==
    call.fn = "calculate_skill_match" =>
        LET jd == call.jd_data
            cv == call.cv_data
            union == (ToSet(cv.skills) \cup ToSet(cv.domain_expertise)) \cup ToSet(cv.soft_skills)
            raw == [required  |-> ToSet(jd.required_skills),
                    preferred |-> ToSet(jd.preferred_skills),
                    domain    |-> ToSet(jd.domain_expertise),
                    soft      |-> ToSet(jd.soft_skills)]
            hits == [required  |-> expand_skills(raw.required, SKILL_SYNONYMS) \cap union,
                     preferred |-> expand_skills(raw.preferred, SKILL_SYNONYMS) \cap union,
                     domain    |-> expand_skills(raw.domain, SKILL_SYNONYMS)
                                       \cap ToSet(cv.domain_expertise),
                     soft      |-> raw.soft \cap ToSet(cv.soft_skills)]
            pct == [required |-> 60, preferred |-> 10, domain |-> 15, soft |-> 15]
            \* sub_score_c * sub_weight_c, and sub_weight_c, of a category in the JD
            term(c) == IF raw[c] = {} THEN Zero
                       ELSE Num(Cardinality(hits[c]) * pct[c], Cardinality(raw[c]) * 100)
            wt(c) == IF raw[c] = {} THEN Zero ELSE Num(pct[c], 100)
            numerator == Add(Add(term("required"), term("preferred")),
                             Add(term("domain"), term("soft")))
            denominator == Add(Add(wt("required"), wt("preferred")), Add(wt("domain"), wt("soft")))
        IN  /\ IsNum(call.result)
            /\ (\A c \in DOMAIN raw : raw[c] = {}) => Eq(call.result, Half)
            /\ (\E c \in DOMAIN raw : raw[c] # {}) =>
                   call.result.n * denominator.n * numerator.d
                       = numerator.n * denominator.d * call.result.d

C5_Witness ==
    /\ call.fn = "calculate_skill_match"
    /\ call.jd_data.required_skills = StrList(<<"python", "sql">>)
    /\ call.jd_data.preferred_skills = EmptyList
    /\ call.jd_data.domain_expertise = StrList(<<"databases", "finance">>)
    /\ call.jd_data.soft_skills = EmptyList
    /\ call.cv_data.skills = StrList(<<"python", "django">>)
    /\ call.cv_data.domain_expertise = StrList(<<"sql", "finance">>)
    /\ call.cv_data.soft_skills = StrList(<<"teamwork">>)
    /\ Eq(call.result, One)

\* C6: check_essential_requirements returns met_count / |essential_requirements|,
\* a requirement being met exactly when its lower-cased text is a member of the
\* candidate's skills or certifications or a substring of the space-joined
\* lower-cased education text; with no essential requirement the result is 1.0.
C6_RequirementsScoreIsMetFraction ==
    call.fn = "check_essential_requirements" =>
        LET reqs  == ToSet(call.jd_data.essential_requirements)
            quals == ToSet(call.cv_data.skills) \cup ToSet(call.cv_data.certifications)
            text  == JoinLower(call.cv_data.education.v, 1)
            met   == {r \in reqs : Str(Lower(r.s)) \in quals \/ Contains(text, Lower(r.s))}
        IN  /\ IsNum(call.result)
            /\ reqs = {} => Eq(call.result, One)
            /\ reqs # {} =>
                   call.result.n * Cardinality(reqs) = Cardinality(met) * call.result.d

C6_Witness ==
    /\ call.fn = "check_essential_requirements"
    /\ call.jd_data.essential_requirements = StrList(<<"science bachelor", "sql">>)
    /\ call.cv_data.skills = StrList(<<"python", "django">>)
    /\ call.cv_data.education = StrList(<<"master of science", "bachelor of arts">>)
    /\ Eq(call.result, Half)

\* C7: when the JD education string contains a degree keyword (jd_level is the
\* highest level of one) and the candidate's education list is non-empty, the
\* result is 1.0 if the highest level found in a candidate phrase is at least
\* jd_level and 0.0 otherwise; a master-level JD gives 0.0 for
\* [bachelor of science], 1.0 for [master of science] and for [phd in physics].
C7_EducationHardThreshold ==
    call.fn = "calculate_education_match" =>
        LET jd_level == IF IsStr(call.jd) THEN KeywordLevel(Lower(call.jd.s)) ELSE 0
            cv_levels == {KeywordLevel(Lower(call.cv.v[i].s)) : i \in DOMAIN call.cv.v}
        IN  /\ (jd_level >= 1 /\ IsList(call.cv) /\ call.cv.v # <<>>) =>
                   IF \E l \in cv_levels : l >= jd_level
                   THEN Eq(call.result, One)
                   ELSE Eq(call.result, Zero)
            /\ call.jd = Str("Master's degree required") =>
                   /\ call.cv = StrList(<<"bachelor of science">>) => Eq(call.result, Zero)
                   /\ call.cv = StrList(<<"master of science">>) => Eq(call.result, One)
                   /\ call.cv = StrList(<<"phd in physics">>) => Eq(call.result, One)

C7_Witness ==
    /\ call.fn = "calculate_education_match"
    /\ call.jd = Str("bachelor's degree")
    /\ call.cv = StrList(<<"Diploma in IT", "Bachelor of Arts">>)
    /\ Eq(call.result, One)

\* C8: a JD education string that is longer than 3 characters and contains no
\* degree keyword gives the neutral 0.5 for every candidate education value,
\* an empty or missing list included.
C8_UnrecognizedJdEducationIsNeutral ==
    ( /\ call.fn = "calculate_education_match"
      /\ IsStr(call.jd)
      /\ Len(call.jd.s) > 3
      /\ KeywordLevel(Lower(call.jd.s)) = 0 ) => Eq(call.result, Half)

\* the JD experience string is null, empty or holds no digit
NoNumber(jd) == IsNone(jd) \/ (IsStr(jd) /\ \A i \in 1..Len(jd.s) : ~IsDigit(Char(jd.s, i)))

\* C9: with jd_min the first numeric token of the JD string and a numeric
\* cv_years >= 0, the result is exactly 1.0 when cv_years >= jd_min and is
\* cv_years / jd_min, a value in [0,1), when cv_years < jd_min; it does not
\* decrease when cv_years grows; "5 years" gives 0.5 for 2.5 and 1.0 for 5.
C9_ExperienceGraduatedScore ==
    ( /\ call.fn = "calculate_experience_match"
      /\ ~NoNumber(call.jd)
      /\ IsNum(call.cv)
      /\ Leq(Zero, call.cv) ) =>
        LET jd_min == parse_experience_years(call.jd)
        IN  /\ IsNum(call.result)
            /\ Leq(jd_min, call.cv) => call.result = One
            /\ Lt(call.cv, jd_min) =>
                   /\ call.result.n * call.cv.d * jd_min.n = call.cv.n * jd_min.d * call.result.d
                   /\ Leq(Zero, call.result) /\ Lt(call.result, One)
            /\ \A less \in {y \in CvYears : IsNum(y) /\ Leq(Zero, y) /\ Leq(y, call.cv)} :
                   Leq(calculate_experience_match(call.jd, less), call.result)
            /\ (call.jd = Str("5 years") /\ call.cv = Num(5, 2)) => call.result = Half
            /\ (call.jd = Str("5 years") /\ call.cv = Num(5, 1)) => call.result = One

C9_Witness ==
    /\ call.fn = "calculate_experience_match"
    /\ call.jd = Str("3-5 years")
    /\ call.cv = Num(12, 1)
    /\ call.result = One

\* C10: when the JD experience string is null, empty or without a number the
\* result is 0.5 for a number cv_years > 0 and 0.0 otherwise; when the JD states
\* a number and cv_years is null, of no numeric type or negative the result is 0.0;
\* no exception is raised.
C10_ExperienceFallbacks ==
    call.fn = "calculate_experience_match" =>
        /\ NoNumber(call.jd) =>
               IF IsNum(call.cv) /\ Lt(Zero, call.cv)
               THEN call.result = Half
               ELSE call.result = Zero
        /\ (~NoNumber(call.jd) /\ (~IsFloat(call.cv) \/ (IsNum(call.cv) /\ Lt(call.cv, Zero)))) =>
               call.result = Zero

C10_Witness ==
    /\ call.fn = "calculate_experience_match"
    /\ call.jd = Str("five years")
    /\ call.cv = Str("five")
    /\ call.result = Zero

----------------------------------------------------------------------------
(* Properties of calculate_match_score (checked under SpecMatch) *)

StoredJob(jd_id) == job_descriptions[jd_id].summary_json.v.v

StoredCandidate(candidate_id) == candidates[candidate_id].extracted_data_json.v.v

\* the unclamped weighted sum for a stored pair under the weight map w
WeightedSum(jd_id, candidate_id, w) ==
    LET jd == StoredJob(jd_id)
        cv == StoredCandidate(candidate_id)
        key(k, default) == IF k \in DOMAIN w THEN w[k] ELSE default
        skills == calculate_skill_match(jd, cv)
        experience == calculate_experience_match(Get(jd, "required_experience_years", None),
                                                 Get(cv, "total_experience_years", None))
        education == calculate_education_match(Get(jd, "required_education", None),
                                               Get(cv, "education", EmptyList))
        requirements == check_essential_requirements(jd, cv)
        T(x, y) == [n |-> x.n * y.n, d |-> x.d * y.d]
        P(x, y) == [n |-> x.n * y.d + y.n * x.d, d |-> x.d * y.d]
    IN  P(P(T(skills, key("skills", Num(4, 10))), T(experience, key("experience", Num(25, 100)))),
          P(T(education, key("education", Num(25, 100))),
            T(requirements, key("requirements", Num(1, 10)))))

\* C2: overall_score = max(0, min(1, skills*w.skills + experience*w.experience
\* + education*w.education + requirements*w.requirements)) with the weights as
\* configured (a key the map lacks counts with its default), never renormalized,
\* and the result lies in [0,1].
C2_OverallIsClampedWeightedSum ==
    call.fn = "calculate_match_score" =>
        LET sum == WeightedSum(call.jd_id, call.candidate_id, MATCHING_WEIGHTS)
            score == call.result.score
        IN  /\ call.result.t = "result"
            /\ InUnit(score)
            /\ IF sum.n < 0 THEN score = Zero
               ELSE IF sum.n > sum.d THEN score = One
               ELSE score.n * sum.d = sum.n * score.d

C2_Witness ==
    /\ call.fn = "calculate_match_score"
    /\ MATCHING_WEIGHTS = [skills |-> Num(1, 1), experience |-> Num(1, 1),
                           education |-> Num(1, 1), requirements |-> Num(1, 1)]
    /\ ToSet(Get(StoredJob(call.jd_id), "required_skills", EmptyList)) = {}
    /\ LET sum == WeightedSum(call.jd_id, call.candidate_id, MATCHING_WEIGHTS)
       IN  sum.n > sum.d
    /\ call.result.score = One

ScenarioJob ==
    [required_skills |-> StrList(<<"python", "sql">>), preferred_skills |-> EmptyList,
     domain_expertise |-> EmptyList, soft_skills |-> EmptyList,
     required_education |-> Str("bachelor's degree"),
     required_experience_years |-> Str("3 years"),
     essential_requirements |-> EmptyList]

ScenarioCandidate ==
    [skills |-> StrList(<<"python", "django">>), soft_skills |-> EmptyList,
     domain_expertise |-> EmptyList, certifications |-> EmptyList,
     education |-> StrList(<<"bachelor of science">>),
     total_experience_years |-> Num(4, 1)]

IsScenarioCall ==
    /\ call.fn = "calculate_match_score"
    /\ StoredJob(call.jd_id) = ScenarioJob
    /\ StoredCandidate(call.candidate_id) = ScenarioCandidate
    /\ MATCHING_WEIGHTS = DEFAULT_WEIGHTS

\* C3: the end-to-end scenario (job: python and sql required, bachelor's degree,
\* 3 years, no essential requirement; candidate: python and django, bachelor of
\* science, 4.0 years; default weights) scores skills 0.5, education 1.0,
\* experience 1.0, requirements 1.0 and overall 0.80.
C3_EndToEndScenario ==
    IsScenarioCall =>
        /\ call.result.t = "result"
        /\ call.result.details.skills_score = Num(1, 2)
        /\ call.result.details.education_score = Num(1, 1)
        /\ call.result.details.experience_score = Num(1, 1)
        /\ call.result.details.requirements_score = Num(1, 1)
        /\ call.result.score = Num(4, 5)

C3_Witness == IsScenarioCall /\ call.result.score = Num(4, 5)

\* C4: a call of calculate_match_score on the same stored records and weights
\* returns the same score and breakdown as an earlier one, whatever pairs were
\* scored in between and in whatever order sets are iterated.
C4_RepeatedCallsAgree ==
    ( /\ call.fn = "calculate_match_score"
      /\ returned # NotScored
      /\ returned.jd_id = call.jd_id
      /\ returned.candidate_id = call.candidate_id ) => call.result = returned.result

C4_Witness ==
    /\ call.fn = "calculate_match_score"
    /\ returned # NotScored
    /\ returned.jd_id = call.jd_id
    /\ returned.candidate_id = call.candidate_id
    /\ returned.hash_seed # hash_seed
    /\ Cardinality(ToSet(Get(StoredJob(call.jd_id), "essential_requirements", EmptyList))) > 1
    /\ call.result.t = "result"
    /\ returned.result = call.result

----------------------------------------------------------------------------
(* Properties of expand_skills (checked under SpecExpand) *)

MembersOf(k) == {SKILL_SYNONYMS[k][2][j] : j \in DOMAIN SKILL_SYNONYMS[k][2]}

\* S, the members of every category named in S, and every category that lists
\* a term of S
OneHop(S) ==
    S \cup {Str(m) : m \in UNION {MembersOf(k) :
                          k \in {i \in DOMAIN SKILL_SYNONYMS : Str(SKILL_SYNONYMS[i][1]) \in S}}}
      \cup {Str(SKILL_SYNONYMS[k][1]) :
                k \in {i \in DOMAIN SKILL_SYNONYMS : \E m \in MembersOf(i) : Str(m) \in S}}

\* C11: expand_skills(S, table) is exactly S, plus the members of every key in
\* S, plus every key that lists a term of S, one hop each way: the empty set
\* gives the empty set, S is contained in the result, {sql} gains databases,
\* {databases} gains sql, and {sql} does not gain its sibling mysql.
C11_ExpandIsOneHopBothWays ==
    call.fn = "expand_skills" =>
        /\ call.result = OneHop(call.skill_set)
        /\ call.skill_set \subseteq call.result
        /\ call.skill_set = {} => call.result = {}
        /\ call.skill_set = {Str("sql")} =>
               Str("databases") \in call.result /\ Str("mysql") \notin call.result
        /\ call.skill_set = {Str("databases")} => Str("sql") \in call.result

C11_Witness ==
    /\ call.fn = "expand_skills"
    /\ call.skill_set = {Str("ai")}
    /\ call.result = {Str("ai"), Str("machine learning"), Str("artificial intelligence")}

\* C12 as stated: for every key k and every member m of table[k], expanding
\* {m} gives the same set as expanding {k}.
C12_ExpansionSymmetric ==
    \A k \in DOMAIN SKILL_SYNONYMS : \A m \in MembersOf(k) :
        call.fn = "expand_skills" /\ call.skill_set = {Str(m)} =>
            call.result = expand_skills({Str(SKILL_SYNONYMS[k][1])}, SKILL_SYNONYMS)

\* C12 as amended: for every key k and every member m of table[k], the
\* expansion of {k} and the expansion of {m} both contain k and m.
C12_CategoryAndMemberInBoth ==
    \A k \in DOMAIN SKILL_SYNONYMS : \A m \in MembersOf(k) :
        call.fn = "expand_skills"
        /\ (call.skill_set = {Str(m)} \/ call.skill_set = {Str(SKILL_SYNONYMS[k][1])}) =>
            Str(SKILL_SYNONYMS[k][1]) \in call.result /\ Str(m) \in call.result

C12_Witness ==
    /\ call.fn = "expand_skills"
    /\ call.pass = 1
    /\ call.skill_set = {Str("sql")}
    /\ call.result = {Str("sql"), Str("databases")}

\* C13 as stated: for S drawn from the keys and members of the table, a second
\* pass returns the same set as the first (it adds nothing).
C13_SecondPassAddsNothing ==
    call.fn = "expand_skills" /\ call.pass = 2
    /\ call.origin \subseteq {Str(x) : x \in TableTerms} =>
        call.result = call.skill_set

\* C13 as amended: for S drawn from the keys and members of the table,
\* expand_skills(expand_skills(S)) is a superset of expand_skills(S).
C13_SecondPassIsSuperset ==
    call.fn = "expand_skills" /\ call.pass = 2
    /\ call.origin \subseteq {Str(x) : x \in TableTerms} =>
        call.skill_set \subseteq call.result

C13_Witness ==
    /\ call.fn = "expand_skills"
    /\ call.pass = 2
    /\ call.origin = {Str("sql")}
    /\ call.skill_set = {Str("sql"), Str("databases")}
    /\ Str("mysql") \in call.result

----------------------------------------------------------------------------
(* Properties of the matches table and the shortlister (checked under       *)
(* SpecStore)                                                               *)

\* the flag a row of this score should carry under the current threshold
FlagFor(score) == IF score.n * SHORTLISTING_THRESHOLD.d >= SHORTLISTING_THRESHOLD.n * score.d THEN 1 ELSE 0

RowsOfJob(table, jd_id) == {i \in DOMAIN table : table[i].jd_id = jd_id}

\* C14: when shortlist_candidates_for_jd(jd) has run, every match row of jd
\* carries shortlist_status = (match_score >= threshold), whatever it carried
\* before, after any interleaving of upserts, threshold changes and earlier
\* shortlist runs.
C14_ShortlistOverwritesFlags ==
    call.fn = "shortlist_candidates_for_jd" =>
        \A i \in RowsOfJob(matches, call.jd_id) :
            matches[i].shortlist_status = FlagFor(matches[i].match_score)

\* one run un-shortlists a row and shortlists another
C14_Witness ==
    /\ call.fn = "shortlist_candidates_for_jd"
    /\ \E i, j \in RowsOfJob(matches, call.jd_id) :
          /\ call.before[i] = 1 /\ matches[i].shortlist_status = 0
          /\ call.before[j] = 0 /\ matches[j].shortlist_status = 1

\* C15: shortlist_candidates_for_jd(jd) returns exactly the candidates of jd
\* whose stored score is >= the threshold (equality included), each once, in
\* descending order of stored score; with no match row for jd it returns the
\* empty list and leaves the table as it was.
C15_ShortlistReturnsQualifiedDescending ==
    [][call = Idle /\ call'.fn = "shortlist_candidates_for_jd" =>
        LET rows == RowsOfJob(matches, call'.jd_id)
            qualified == {i \in rows : FlagFor(matches[i].match_score) = 1}
            res == call'.result
            ScoreOf(c) == matches[CHOOSE i \in rows : matches[i].candidate_id = c].match_score
        IN  /\ {res[k].candidate_id : k \in DOMAIN res} =
                   {matches[i].candidate_id : i \in qualified}
            /\ Len(res) = Cardinality(qualified)
            /\ \A a, b \in DOMAIN res :
                   a < b => Leq(ScoreOf(res[b].candidate_id), ScoreOf(res[a].candidate_id))
            /\ rows = {} => res = <<>> /\ matches' = matches]_vars

\* both candidates are returned, the later-stored and higher-scored one first,
\* the other with a score equal to the threshold
C15_Witness ==
    /\ call.fn = "shortlist_candidates_for_jd"
    /\ Len(call.result) = 2
    /\ Eq(call.result[2].match_score, SHORTLISTING_THRESHOLD)
    /\ Lt(call.result[2].match_score, call.result[1].match_score)
    /\ \E i, j \in RowsOfJob(matches, call.jd_id) :
          /\ i < j
          /\ matches[i].candidate_id = call.result[2].candidate_id
          /\ matches[j].candidate_id = call.result[1].candidate_id

SamePair(r, jd_id, candidate_id) == r.jd_id = jd_id /\ r.candidate_id = candidate_id

\* C16: the matches table never holds two rows for one (jd_id, candidate_id);
\* an upsert for a pair that has a row replaces that row's score and details
\* and adds no row, an upsert for a new pair adds one row, and either way the
\* rows of all other pairs stay as they were.
C16_OneRowPerPairLastWriteWins ==
    [][/\ \A i, j \in DOMAIN matches' :
              SamePair(matches'[i], matches'[j].jd_id, matches'[j].candidate_id) => i = j
       /\ call = Idle /\ call'.fn = "add_or_update_match" =>
              LET had == {i \in DOMAIN matches :
                             SamePair(matches[i], call'.jd_id, call'.candidate_id)}
                  has == {i \in DOMAIN matches' :
                             SamePair(matches'[i], call'.jd_id, call'.candidate_id)}
              IN  /\ Cardinality(has) = 1
                  /\ \A i \in has :
                        /\ matches'[i].match_score = call'.score
                        /\ matches'[i].match_details_json =
                               (IF DOMAIN call'.details.v = {} THEN None
                                ELSE Json(call'.details))
                  /\ Len(matches') = Len(matches) + (IF had = {} THEN 1 ELSE 0)
                  /\ \A i \in DOMAIN matches : i \notin had => matches'[i] = matches[i]]_vars

\* a pair that had a row (and had been shortlisted) was scored again: its row,
\* not the newest of the table, carries the new score and details
C16_Witness ==
    /\ call.fn = "add_or_update_match"
    /\ Len(matches) >= 2
    /\ \E i \in 1..(Len(matches) - 1) :
          /\ SamePair(matches[i], call.jd_id, call.candidate_id)
          /\ matches[i].match_score = call.score
          /\ matches[i].match_details_json = None
          /\ matches[i].shortlist_status = 1

----------------------------------------------------------------------------
(* Properties of the batch sweep (checked under SpecSweepRemoval and        *)
(* SpecSweep)                                                               *)

SweepJobId == sweep.all_jd_ids[sweep.j]

SweepCandidateId == sweep.all_candidate_ids[sweep.c]

\* the sweep has left the pair it was at: it is at a later pair or past the last
MovedOn ==
    /\ sweep'.pc \in {"job", "candidate", "shortlist"}
    /\ \/ sweep'.pc = "shortlist"
       \/ sweep'.j > sweep.j
       \/ sweep'.j = sweep.j /\ sweep'.c > sweep.c

HasRowFor(table, jd_id, candidate_id) ==
    \E i \in DOMAIN table : table[i].jd_id = jd_id /\ table[i].candidate_id = candidate_id

\* C17: when the job row or the candidate row of the pair does not exist,
\* calculate_match_score returns score None with an error breakdown, and the
\* sweep, whether it notices at its own check or from the None, leaves the
\* matches table as it is and goes on to the next pair.
C17_MissingRecordIsSkipped ==
    [][/\ sweep.pc = "job" /\ sweep' # sweep /\ SweepJobId \notin DOMAIN job_descriptions =>
              matches' = matches /\ MovedOn
       /\ sweep.pc = "candidate" /\ sweep' # sweep
          /\ SweepCandidateId \notin DOMAIN candidates =>
              matches' = matches /\ MovedOn
       /\ sweep.pc = "score" /\ sweep' # sweep
          /\ (SweepJobId \notin DOMAIN job_descriptions
              \/ SweepCandidateId \notin DOMAIN candidates) =>
              /\ sweep'.last.t = "result"
              /\ IsNone(sweep'.last.score)
              /\ DOMAIN sweep'.last.details = {"error"}
              /\ matches' = matches
              /\ MovedOn]_vars

\* a call for a pair whose row was deleted returned None, no row was written
\* for it, and the sweep is at a later position with scores of other pairs saved
C17_Witness ==
    /\ sweep.pc \in {"job", "candidate", "shortlist"}
    /\ sweep.last.t = "result"
    /\ IsNone(sweep.last.score)
    /\ LET pair == sweep.scored[Len(sweep.scored)]
       IN  /\ pair[1] \notin DOMAIN job_descriptions \/ pair[2] \notin DOMAIN candidates
           /\ ~HasRowFor(matches, pair[1], pair[2])
    /\ Len(matches) >= 1

\* the column holds the JSON text of an object
IsObject(column) == column.t = "json" /\ column.v.t = "dict"

\* C18: when both rows exist but the summary or the extraction is not JSON or
\* not a JSON object, calculate_match_score raises nothing and returns 0 (not
\* None) with an error breakdown naming exactly the failing sides, and the
\* sweep saves that score and breakdown for the pair and goes on.
C18_MalformedPayloadScoresZero ==
    [][sweep.pc = "score" /\ sweep' # sweep
       /\ (~IsObject(job_descriptions[SweepJobId].summary_json)
           \/ ~IsObject(candidates[SweepCandidateId].extracted_data_json)) =>
          LET jd_bad == ~IsObject(job_descriptions[SweepJobId].summary_json)
              cv_bad == ~IsObject(candidates[SweepCandidateId].extracted_data_json)
              result == sweep'.last
          IN  /\ result.t = "result"
              /\ ~IsNone(result.score)
              /\ result.score = Num(0, 1)
              /\ DOMAIN result.details =
                     {"error"} \cup (IF jd_bad THEN {"jd_error"} ELSE {})
                               \cup (IF cv_bad THEN {"cv_error"} ELSE {})
              /\ \E i \in DOMAIN matches' :
                    /\ matches'[i].jd_id = SweepJobId
                    /\ matches'[i].candidate_id = SweepCandidateId
                    /\ matches'[i].match_score = Num(0, 1)
                    /\ matches'[i].match_details_json = Json(Dict(result.details))
              /\ MovedOn]_vars

\* the sweep has ended normally; a pair with both sides malformed was saved
\* with score 0 and scores of later pairs were saved after it
C18_Witness ==
    /\ sweep.pc = "done"
    /\ \E i \in DOMAIN matches :
          /\ i < Len(matches)
          /\ matches[i].match_score = Num(0, 1)
          /\ matches[i].match_details_json.t = "json"
          /\ DOMAIN matches[i].match_details_json.v.v = {"error", "jd_error", "cv_error"}

\* C19: whatever the stored payloads, when run_matching_and_shortlisting ends
\* it has scored every pair that has a summary and an extraction and has run
\* shortlisting for every job.
C19_SweepSurvivesEveryPair ==
    sweep.pc \in {"done", "raised"} =>
        /\ \A a \in DOMAIN sweep.all_jd_ids, b \in DOMAIN sweep.all_candidate_ids :
              ~NoSummary(sweep.all_jd_ids[a]) /\ ~NoExtraction(sweep.all_candidate_ids[b]) =>
                  \E k \in DOMAIN sweep.scored :
                      sweep.scored[k] = <<sweep.all_jd_ids[a], sweep.all_candidate_ids[b]>>
        /\ sweep.shortlisted = sweep.all_jd_ids

JobSetFields == {"required_skills", "preferred_skills", "domain_expertise", "soft_skills",
                 "essential_requirements"}

CvSetFields == {"skills", "domain_expertise", "soft_skills", "certifications", "education"}

IsStrList(x) == x.t = "list" /\ \A i \in DOMAIN x.v : x.v[i].t = "str"

\* every recognized key the object has holds a value of the documented type
JobWellTyped(d) ==
    /\ \A k \in JobSetFields \cap DOMAIN d : IsStrList(d[k])
    /\ \A k \in {"required_education", "required_experience_years"} \cap DOMAIN d :
          d[k].t \in {"str", "none"}

CvWellTyped(d) ==
    /\ \A k \in CvSetFields \cap DOMAIN d : IsStrList(d[k])
    /\ "total_experience_years" \in DOMAIN d => d.total_experience_years.t \in {"num", "none"}

\* the object with every absent recognized key filled in: [] for a set field,
\* null for a scalar
FilledJob(d) ==
    [k \in JobSetFields \cup {"required_education", "required_experience_years"} |->
        IF k \in DOMAIN d THEN d[k] ELSE IF k \in JobSetFields THEN List(<<>>) ELSE None]

FilledCv(d) ==
    [k \in CvSetFields \cup {"total_experience_years"} |->
        IF k \in DOMAIN d THEN d[k] ELSE IF k \in CvSetFields THEN List(<<>>) ELSE None]

\* C20: for a job object and a candidate object whose recognized keys are
\* well-typed where present, with any of them absent and other keys present,
\* calculate_match_score returns a number and the full breakdown, the same as
\* for the objects with [] filled in for absent set fields and null for absent
\* scalars.
C20_AbsentFieldsTakeDefaults ==
    [][sweep.pc = "score" /\ sweep' # sweep
       /\ IsObject(job_descriptions[SweepJobId].summary_json)
       /\ IsObject(candidates[SweepCandidateId].extracted_data_json)
       /\ JobWellTyped(job_descriptions[SweepJobId].summary_json.v.v)
       /\ CvWellTyped(candidates[SweepCandidateId].extracted_data_json.v.v) =>
          LET jd == FilledJob(job_descriptions[SweepJobId].summary_json.v.v)
              cv == FilledCv(candidates[SweepCandidateId].extracted_data_json.v.v)
              sk == calculate_skill_match(jd, cv)
              ex == calculate_experience_match(jd.required_experience_years,
                                               cv.total_experience_years)
              ed == calculate_education_match(jd.required_education, cv.education)
              rq == check_essential_requirements(jd, cv)
              result == sweep'.last
          IN  /\ result.t = "result"
              /\ result.score.t = "num"
              /\ DOMAIN result.details = {"skills_score", "experience_score", "education_score",
                                          "requirements_score", "weights_used"}
              /\ result.details.skills_score = Round3(sk)
              /\ result.details.experience_score = Round3(ex)
              /\ result.details.education_score = Round3(ed)
              /\ result.details.requirements_score = Round3(rq)
              /\ result.score = ApplyWeights(sk, ex, ed, rq, MATCHING_WEIGHTS)]_vars

\* the job object has only one recognized key and a key the scorer does not
\* know, the candidate object is empty, and the pair got a number
C20_Witness ==
    /\ sweep.pc \in {"job", "candidate", "shortlist", "done"}
    /\ sweep.last.t = "result"
    /\ sweep.last.score.t = "num"
    /\ LET pair == sweep.scored[Len(sweep.scored)]
       IN  /\ job_descriptions[pair[1]].summary_json = StoredSummaries[5]
           /\ candidates[pair[2]].extracted_data_json = StoredExtractions[8]

----------------------------------------------------------------------------
(* Start-up of the matching agent (SpecConfig) *)

\* config.yaml loads, and its matching_weights is no mapping or a mapping
\* with a value that is no number
WeightsMalformed ==
    /\ ~IsExc(load_config)
    /\ IsDict(CONFIG_FILE.v)
    /\ "matching_weights" \in DOMAIN CONFIG_FILE.v.v
    /\ LET configured == CONFIG_FILE.v.v["matching_weights"]
       IN  \/ ~IsDict(configured)
           \/ \E k \in DOMAIN configured.v : ~IsNum(configured.v[k])

\* C21: when the configured matching_weights is malformed (no mapping, or a
\* mapping with a value that is no number), the agent scores with the default
\* weights and no scoring call fails.
C21_MalformedWeightsFallBackToDefaults ==
    (WeightsMalformed /\ call.fn \in {"import matching_agent", "calculate_match_score"}) =>
        /\ MATCHING_WEIGHTS = DEFAULT_WEIGHTS
        /\ ~IsExc(call.result)

\* C28: when load_config fails while matching_agent is imported, the import
\* ends with MATCHING_WEIGHTS bound to the default weights and raises nothing.
C28_FailedLoadEndsWithDefaults ==
    (call.fn = "import matching_agent" /\ IsExc(load_config)) =>
        /\ MATCHING_WEIGHTS = DEFAULT_WEIGHTS
        /\ ~IsExc(call.result)

----------------------------------------------------------------------------
(* The reported weights (SpecMatch) *)

\* C29: the weights_used of every breakdown holds, for each of skills,
\* experience, education and requirements, the weight that was multiplied
\* into the overall score, also when the configured map omits a key and the
\* per-key default is applied.
C29_WeightsUsedAreTheWeightsApplied ==
    (/\ call.fn = "calculate_match_score"
     /\ call.result.t = "result"
     /\ "weights_used" \in DOMAIN call.result.details) =>
        LET weights_used == call.result.details.weights_used
        IN  \A k \in DOMAIN DEFAULT_WEIGHTS :
                /\ k \in DOMAIN weights_used
                /\ weights_used[k] = Get(MATCHING_WEIGHTS, k, DEFAULT_WEIGHTS[k])

----------------------------------------------------------------------------
(* Division in calculate_experience_match (Spec) *)

\* the call passes both early returns and fails "cv >= jd_min_years": it
\* computes cv_total_exp_years / jd_min_years
RatioBranch(jd, cv) ==
    /\ ~NoNumber(jd)
    /\ IsFloat(cv)
    /\ ~(IsNum(cv) /\ Lt(cv, Zero))
    /\ ~(IsNum(cv) /\ Leq(parse_experience_years(jd), cv))

\* C27: calculate_experience_match never divides by zero: when the JD string
\* parses to 0 every numeric cv_years >= 0 gets 1.0, and the ratio branch is
\* only taken with jd_min_years > 0.
C27_ExperienceNeverDividesByZero ==
    call.fn = "calculate_experience_match" =>
        /\ call.result # Exc("ZeroDivisionError")
        /\ (/\ ~NoNumber(call.jd)
            /\ Eq(parse_experience_years(call.jd), Zero)
            /\ IsNum(call.cv) /\ Leq(Zero, call.cv)) => call.result = One
        /\ RatioBranch(call.jd, call.cv) => Lt(Zero, parse_experience_years(call.jd))

----------------------------------------------------------------------------
(* Ingestion over repeated runs (SpecIngest) *)

\* the job_descriptions rows made from row r of the CSV
RowsOfCsvRow(r) ==
    {i \in DOMAIN job_descriptions :
        /\ job_descriptions[i].title = JobCsv[r].title
        /\ job_descriptions[i].original_description = JobCsv[r].description}

\* the candidates rows made from file f of the CV directory
RowsOfCvFile(f) ==
    {i \in DOMAIN candidates : candidates[i].cv_filename = Str(CvFiles[f].name)}

\* C22: after any number of pipeline runs on the same CSV and the same CV
\* files every job row of the CSV and every CV file has exactly one stored
\* record, and the summarizer / extractor is not invoked for a document whose
\* structured data is already stored.
C22_OneStoredProfilePerDocument ==
    /\ (pipeline.pc = "idle" /\ pipeline.run >= 1) =>
           /\ \A r \in DOMAIN JobCsv :
                  JobCsv[r].description # "" => Cardinality(RowsOfCsvRow(r)) = 1
           /\ \A f \in DOMAIN CvFiles :
                  Len(CvFiles[f].text) >= 50 => Cardinality(RowsOfCvFile(f)) = 1
    /\ (pipeline.run >= 1 /\ pipeline.invoked = "summarize_job_description") =>
           LET jd_id == Cardinality(DOMAIN job_descriptions)
           IN  \A i \in 1..(jd_id - 1) :
                   ~(/\ job_descriptions[i].title = job_descriptions[jd_id].title
                     /\ job_descriptions[i].original_description =
                            job_descriptions[jd_id].original_description
                     /\ Truthy(job_descriptions[i].summary_json))

----------------------------------------------------------------------------
(* Frame of a scoring call (SpecMatch) *)

\* C23: a call of calculate_match_score, with the component scorers it runs,
\* writes nothing to the tables and leaves the weight map as it was, so that
\* the result for a pair is the one an earlier call gave for it, whatever
\* pairs were scored in between.
C23_ScoringHasNoSideEffects ==
    [][(call = Idle /\ call'.fn = "calculate_match_score") =>
          /\ job_descriptions' = job_descriptions
          /\ candidates' = candidates
          /\ matches' = matches
          /\ MATCHING_WEIGHTS' = MATCHING_WEIGHTS
          /\ SHORTLISTING_THRESHOLD' = SHORTLISTING_THRESHOLD
          /\ (/\ returned # NotScored
              /\ returned.jd_id = call'.jd_id
              /\ returned.candidate_id = call'.candidate_id) =>
                 call'.result = returned.result]_vars

\* a pair was scored after another pair had been scored and kept, and the
\* tables hold no match row
C23_Witness ==
    /\ call.fn = "calculate_match_score"
    /\ call.result.t = "result"
    /\ returned # NotScored
    /\ <<returned.jd_id, returned.candidate_id>> # <<call.jd_id, call.candidate_id>>
    /\ returned.result.t = "result"
    /\ matches = <<>>

----------------------------------------------------------------------------
(* One whole run of run_matching_and_shortlisting (SpecSweep) *)

\* the job has a summary and the candidate an extraction
Eligible(jd_id, candidate_id) == ~NoSummary(jd_id) /\ ~NoExtraction(candidate_id)

TimesScored(jd_id, candidate_id) ==
    Cardinality({k \in DOMAIN sweep.scored : sweep.scored[k] = <<jd_id, candidate_id>>})

\* every pair of the run that has a summary and an extraction has been
\* scored once and has its row; every other pair has neither
AllPairsSettled ==
    \A a \in DOMAIN sweep.all_jd_ids, b \in DOMAIN sweep.all_candidate_ids :
        LET jd_id == sweep.all_jd_ids[a]
            candidate_id == sweep.all_candidate_ids[b]
        IN  IF Eligible(jd_id, candidate_id)
            THEN TimesScored(jd_id, candidate_id) = 1 /\ HasRowFor(matches, jd_id, candidate_id)
            ELSE TimesScored(jd_id, candidate_id) = 0 /\ ~HasRowFor(matches, jd_id, candidate_id)

\* C24: in one run every pair with a non-empty summary and a non-empty
\* extraction is scored exactly once and its result stored, every other pair
\* is skipped and gets no row, shortlisting starts only when all pairs of all
\* jobs are stored, and at the end every match row carries
\* shortlist_status = (match_score >= threshold).
C24_RunScoresAllThenShortlistsAll ==
    /\ (sweep.pc \in {"shortlist", "done", "raised"} /\ sweep.all_jd_ids # <<>>
            /\ sweep.all_candidate_ids # <<>>) => AllPairsSettled
    /\ (sweep.pc # "idle" /\ sweep.shortlisted # <<>>) => AllPairsSettled
    /\ sweep.pc \in {"done", "raised"} =>
           \A i \in DOMAIN matches : matches[i].shortlist_status = FlagFor(matches[i].match_score)

----------------------------------------------------------------------------
(* The single-pair path (SpecSingle) *)

\* C25: after the test block of matching_agent has saved a match, the row of
\* its pair carries shortlist_status = (score >= threshold), also when the
\* row was there before with shortlist_status = 1 and the new score is below
\* the threshold.
C25_SinglePairDecisionFollowsScore ==
    (call.fn = "matching_agent __main__" /\ call.run.saved) =>
        \A i \in DOMAIN matches :
            (matches[i].jd_id = test_jd_id /\ matches[i].candidate_id = test_candidate_id) =>
                matches[i].shortlist_status =
                    (IF Leq(call.threshold, matches[i].match_score) THEN 1 ELSE 0)

----------------------------------------------------------------------------
(* Rescoring a stored pair (SpecStore) *)

\* C26: add_or_update_match on a pair that has a row keeps that row's
\* match_id and shortlist_status (only score and details change), so until
\* the next shortlisting the row may carry a shortlist_status that is not
\* (match_score >= threshold).
C26_RescoringKeepsIdAndFlag ==
    [][(call = Idle /\ call'.fn = "add_or_update_match") =>
          \A i \in DOMAIN matches :
              SamePair(matches[i], call'.jd_id, call'.candidate_id) =>
                  /\ matches'[i].match_id = matches[i].match_id
                  /\ matches'[i].shortlist_status = matches[i].shortlist_status
                  /\ SamePair(matches'[i], call'.jd_id, call'.candidate_id)]_vars

\* a shortlisted row was rescored below the threshold and is still flagged
C26_Witness ==
    /\ call.fn = "add_or_update_match"
    /\ \E i \in DOMAIN matches :
          /\ SamePair(matches[i], call.jd_id, call.candidate_id)
          /\ matches[i].match_score = call.score
          /\ matches[i].shortlist_status = 1
          /\ FlagFor(matches[i].match_score) = 0

----------------------------------------------------------------------------
(* Malformed payloads under every threshold (SpecMalformed) *)

\* the row holds the breakdown calculate_match_score gives for invalid JSON
ErrorBreakdown(row) ==
    /\ row.match_details_json = Json(Dict(row.match_details_json.v.v))
    /\ "error" \in DOMAIN row.match_details_json.v.v
    /\ row.match_score = Zero

\* the run has shortlisted the job
RunShortlisted(jd_id) ==
    /\ sweep.pc # "idle"
    /\ \E k \in DOMAIN sweep.shortlisted : sweep.shortlisted[k] = jd_id

\* the returned list names the candidate
Names(shortlisted_candidates, candidate_id) ==
    \E k \in DOMAIN shortlisted_candidates :
        shortlisted_candidates[k].candidate_id = candidate_id

Listed(candidate_id) == Names(call.result, candidate_id)

\* C30 as stated: for every threshold in [0, 1], once the run has scored and
\* shortlisted, a match row holding the invalid-JSON breakdown (score 0) has
\* shortlist_status = 0 and its candidate is not in the list
\* shortlist_candidates_for_jd returns for the job.
C30_MalformedNeverShortlisted ==
    /\ [](\A i \in DOMAIN matches :
            (ErrorBreakdown(matches[i]) /\ RunShortlisted(matches[i].jd_id)) =>
                matches[i].shortlist_status = 0)
    /\ [][(call = Idle /\ call'.fn = "shortlist_candidates_for_jd"
              /\ RunShortlisted(call'.jd_id)) =>
             \A i \in DOMAIN matches' :
                 (ErrorBreakdown(matches'[i]) /\ matches'[i].jd_id = call'.jd_id) =>
                     ~Names(call'.result, matches'[i].candidate_id)]_vars

\* C30 as amended: once the run has scored and shortlisted, a match row
\* holding the invalid-JSON breakdown (score 0) has shortlist_status = 0 and is
\* absent from the returned list under every threshold above 0; under the
\* threshold 0 it has shortlist_status = 1 and is in the returned list.
C30_MalformedShortlistedOnlyAtZero ==
    /\ [](\A i \in DOMAIN matches :
            (ErrorBreakdown(matches[i]) /\ RunShortlisted(matches[i].jd_id)) =>
                matches[i].shortlist_status = (IF SHORTLISTING_THRESHOLD = Zero THEN 1 ELSE 0))
    /\ [][(call = Idle /\ call'.fn = "shortlist_candidates_for_jd"
              /\ RunShortlisted(call'.jd_id)) =>
             \A i \in DOMAIN matches' :
                 (ErrorBreakdown(matches'[i]) /\ matches'[i].jd_id = call'.jd_id) =>
                     (Names(call'.result, matches'[i].candidate_id)
                          <=> SHORTLISTING_THRESHOLD = Zero)]_vars

\* under a threshold above 0 a call returned a list that names a candidate of
\* the job and leaves out the one whose row holds the error breakdown
C30_Witness ==
    /\ sweep.pc = "done"
    /\ Lt(Zero, SHORTLISTING_THRESHOLD)
    /\ call.fn = "shortlist_candidates_for_jd"
    /\ call.result # <<>>
    /\ \E i \in DOMAIN matches :
          /\ ErrorBreakdown(matches[i])
          /\ matches[i].jd_id = call.jd_id
          /\ matches[i].shortlist_status = 0
          /\ ~Listed(matches[i].candidate_id)

====
